---- MODULE Spec2Model ----
(***************************************************************************)
(* Model of the real-time polling service's WebSocket core                 *)
(* (src/src/utils/logger.js, lines 153-539: the websocket handler) and of  *)
(* the vote route that publishes to it (src/unnamed/part_001).             *)
(*                                                                         *)
(* The server is a single Node.js event loop: every handler below is one   *)
(* atomic action.  Time is kept as ages (now - timestamp) counted in ticks *)
(* of TickMs and capped at MaxAge, which keeps every comparison the code   *)
(* makes on them.                                                          *)
(***************************************************************************)
EXTENDS Integers, Sequences, FiniteSets, TLC

(***************************************************************************)
(* Bounds of the model.                                                    *)
(***************************************************************************)
MaxConns == 2          \* connections of the full specification
MaxSubscribers == 3    \* connections of the fan-out specification
MaxTopics == 2
MaxUsers == 2
MaxPayloads == 2
MaxRequests == 2       \* vote requests in flight
MaxOptions == 3        \* poll options in the database
MaxWire == 6           \* frames the ordering specification records
MaxCalls == 3          \* broadcasts the ordering specification records

(***************************************************************************)
(* Program constants.                                                      *)
(***************************************************************************)
PingIntervalMs == 30000
InactivityThresholdMs == 300000
CleanupIntervalMs == 120000
\* ws.close(1000, 'Inactive connection cleanup')
CleanupCloseCode == 1000
CleanupCloseReason == "Inactive connection cleanup"

\* One tick of model time: three sweep periods, the first multiple of the
\* sweep period beyond the inactivity threshold.  Events happen at whole
\* ticks; every ping interval (PingIntervalMs <= TickMs) fires within each
\* tick, and the sweeps that fall inside a tick find nothing newly inactive.
TickMs == 3 * CleanupIntervalMs
MaxAge == (InactivityThresholdMs \div TickMs) + 1

ConnIds == 1..(IF MaxSubscribers > MaxConns THEN MaxSubscribers ELSE MaxConns)
Topics == 1..MaxTopics
Users == 1..MaxUsers
Payloads == 1..MaxPayloads

\* A pollId as a frame carries it: 0 is a falsy (missing) pollId.
PollIdInputs == 0..MaxTopics
\* A token as a frame carries it: 0 is a missing token, 1..MaxUsers is the
\* valid token of that user, MaxUsers + 1 is an invalid or expired token.
TokenInputs == 0..(MaxUsers + 1)
Requests == 1..MaxRequests
Options == 1..MaxOptions
\* A pollOptionId as a vote request carries it: 0 is missing, MaxOptions + 1
\* is the id of no option.
OptionInputs == 0..(MaxOptions + 1)
\* The poll an option belongs to.
PollOf(option) == ((option - 1) % MaxTopics) + 1

VARIABLES
    nextId,                 \* ids handed out so far (generateClientId is fresh)
    clients,                \* Map clientId -> clientInfo
    pollSubscriptions,      \* Map pollId -> Set of clientId (insertion ordered)
    authenticatedClients,   \* Map clientId -> userId
    wsState,                \* per connection: the socket's readyState
    sweepAge,               \* ticks since cleanupInactiveConnections last ran
    sent,                   \* frames sent by the last handler, in send order
    lastOp,                 \* the handler that ran last, and what it returned
    isPublished,            \* database: the polls with isPublished = true
    votes,                  \* database: the vote rows, <<userId, pollOptionId>>
    voteReq,                \* per vote request: where its handler stands
    polls,                  \* database: the poll rows, id -> creatorId, question
    pollReq,                \* per PUT/DELETE poll request: where its handler stands
    destroyed,              \* history: how each connection's record was removed
    granted,                \* history: <<clientId, pollId>> subscriptions acknowledged
                            \* by 'subscribed' and not ended since
    wire                    \* history: every frame handed to ws.send, in call
                            \* order (kept by the ordering specification only)

wsVars == <<nextId, clients, pollSubscriptions, authenticatedClients, wsState,
            sweepAge>>
pollVars == <<polls, pollReq>>
dbVars == <<isPublished, votes, voteReq, polls, pollReq>>
histVars == <<destroyed, granted, wire>>
vars == <<nextId, clients, pollSubscriptions, authenticatedClients, wsState,
          sweepAge, sent, lastOp, isPublished, votes, voteReq, polls, pollReq,
          destroyed, granted, wire>>

(***************************************************************************)
(* Maps and insertion-ordered sets.                                        *)
(***************************************************************************)
EmptyMap == [x \in {} |-> 0]
MapSet(m, k, v) == [x \in (DOMAIN m) \cup {k} |-> IF x = k THEN v ELSE m[x]]
MapDelete(m, k) == [x \in (DOMAIN m) \ {k} |-> m[x]]

Range(s) == {s[i] : i \in 1..Len(s)}
SetAdd(s, e) == IF e \in Range(s) THEN s ELSE Append(s, e)
SetDelete(s, e) == SelectSeq(s, LAMBDA x : x # e)

\* An optional value: <<>> is undefined/null, <<v>> is v.
None == <<>>
Some(v) == <<v>>

Frame(type, pollId, data) ==
    [type |-> type, pollId |-> pollId, data |-> data, message |-> "",
     timestamp |-> None]
ErrorFrame(type, message) ==
    [type |-> type, pollId |-> 0, data |-> 0, message |-> message,
     timestamp |-> None]
\* timestamp: new Date().toISOString(), the time of the call (age 0).
Stamped(frame) == [frame EXCEPT !.timestamp = Some(0)]
Out(to, frame) == [to |-> to, frame |-> frame]

(***************************************************************************)
(* Pure helpers of the handler.                                            *)
(***************************************************************************)
\* jwt.verify: the decoded userId, or None when verification throws.
JwtVerify(token) == IF token \in Users THEN Some(token) ELSE None

\* Mutant: any registered client passes, the flag is not read.
IsClientAuthenticatedAnyRecord(cl, clientId) == clientId \in DOMAIN cl

IsClientAuthenticated(cl, clientId) ==
    clientId \in DOMAIN cl /\ cl[clientId].authenticated = TRUE

\* Mutant: the subscribers are a list, every call appends.
SubscribeToPollAppends(ps, clientId, pollId) ==
    LET ps1 == IF pollId \in DOMAIN ps THEN ps ELSE MapSet(ps, pollId, <<>>)
    IN  MapSet(ps1, pollId, Append(ps1[pollId], clientId))

SubscribeToPoll(ps, clientId, pollId) ==
    LET ps1 == IF pollId \in DOMAIN ps THEN ps ELSE MapSet(ps, pollId, <<>>)
    IN  MapSet(ps1, pollId, SetAdd(ps1[pollId], clientId))

\* Mutant: the emptied set stays in the map.
UnsubscribeFromPollKeepsEmpty(ps, clientId, pollId) ==
    IF pollId \in DOMAIN ps
    THEN MapSet(ps, pollId, SetDelete(ps[pollId], clientId))
    ELSE ps

\* Mutant: the client is taken out of every poll's set.
UnsubscribeFromPollEverywhere(ps, clientId, pollId) ==
    LET keep == {p \in DOMAIN ps : Len(SetDelete(ps[p], clientId)) # 0}
    IN  [p \in keep |-> SetDelete(ps[p], clientId)]

\* Mutant: the client stays in the poll's set.
UnsubscribeFromPollKeeps(ps, clientId, pollId) == ps

UnsubscribeFromPoll(ps, clientId, pollId) ==
    IF pollId \in DOMAIN ps
    THEN LET subs == SetDelete(ps[pollId], clientId)
         IN  IF Len(subs) = 0 THEN MapDelete(ps, pollId)
                              ELSE MapSet(ps, pollId, subs)
    ELSE ps

\* Mutant: a call for a client that no poll holds drops a poll's entry.
RemoveFromPollSubscriptionsDropsPoll(ps, clientId) ==
    LET keep == {p \in DOMAIN ps : Len(SetDelete(ps[p], clientId)) # 0}
        held == {p \in DOMAIN ps : clientId \in Range(ps[p])}
    IN  IF held = {} /\ keep # {}
        THEN [p \in keep \ {CHOOSE q \in keep : TRUE} |-> ps[p]]
        ELSE [p \in keep |-> SetDelete(ps[p], clientId)]

\* Mutant: the loop stops at the first poll that held the client.
RemoveFromPollSubscriptionsStopsEarly(ps, clientId) ==
    LET held == {p \in DOMAIN ps : clientId \in Range(ps[p])}
    IN  IF held = {} THEN ps
        ELSE LET first == CHOOSE p \in held : \A q \in held : p <= q
                 subs == SetDelete(ps[first], clientId)
             IN  IF Len(subs) = 0 THEN MapDelete(ps, first)
                                  ELSE MapSet(ps, first, subs)

RemoveFromPollSubscriptions(ps, clientId) ==
    LET keep == {p \in DOMAIN ps : Len(SetDelete(ps[p], clientId)) # 0}
    IN  [p \in keep |-> SetDelete(ps[p], clientId)]

\* lastActivity || lastPing (lastPing is set at construction, so the
\* connectedAt fallback is never taken).
LastActivityOf(ci) ==
    IF ci.lastActivity # None THEN ci.lastActivity[1] ELSE ci.lastPing

IsInactive(ci) == LastActivityOf(ci) * TickMs > InactivityThresholdMs

Op(name, conn, topic) ==
    [op |-> name, conn |-> conn, topic |-> topic, before |-> <<>>,
     throwers |-> {}, successCount |-> 0, failCount |-> 0, returned |-> "normal",
     closed |-> {}, removedBy |-> "no", visited |-> <<>>, attempted |-> <<>>]

\* A call of ws.close(code, reason) on a connection's socket.
CloseCall(c, code, reason) == [conn |-> c, code |-> code, reason |-> reason]

\* The subscribers of a poll, as pollSubscriptions.get(pollId) finds them.
SubscribersOf(ps, pollId) == IF pollId \in DOMAIN ps THEN ps[pollId] ELSE <<>>

\* History: the subscriptions of a connection end with its record.
Revoke(g, ids) == {pair \in g : pair[1] \notin ids}

\* History: a record removed by `by`, and the polls whose subscriber set
\* held the connection when it was removed.
TopicsOf(ps, clientId) == {p \in DOMAIN ps : clientId \in Range(ps[p])}
Removed(by, ps, clientId) == [by |-> by, topics |-> TopicsOf(ps, clientId)]

NotRemoved == [by |-> "no", topics |-> {}]

\* History: the frames of one handler, each with the number of the
\* broadcastPollUpdate call that sent it (0: sent by another handler).
Calls(out, call) ==
    [i \in 1..Len(out) |-> [to |-> out[i].to, frame |-> out[i].frame, call |-> call]]

\* Mutant: the socket hands over the newest frames first.
EnqueueNewestFirst(frames, out) == out \o frames

\* ws.send: the frames of a socket leave in the order of the send calls.
Enqueue(frames, out) == frames \o out

WireOff == [on |-> FALSE, calls |-> 0, frames |-> <<>>]
WireOn == [on |-> TRUE, calls |-> 0, frames |-> <<>>]

Logged(w, out, isBroadcast) ==
    IF ~w.on THEN w
    ELSE LET call == IF isBroadcast THEN w.calls + 1 ELSE 0
         IN  [on |-> TRUE,
              calls |-> IF isBroadcast THEN w.calls + 1 ELSE w.calls,
              frames |-> Enqueue(w.frames, Calls(out, call))]

\* A PUT or DELETE /api/polls/:id request.  question 0 and isPublished
\* "undefined" are fields the body does not carry.
IdlePollRequest ==
    [pc |-> "idle", method |-> "", user |-> 0, id |-> 0, question |-> 0,
     isPublished |-> "undefined", status |-> 0]

\* The poll rows of the database at start: poll p was created by user
\* ((p - 1) % MaxUsers) + 1.
SeededPolls ==
    [p \in Topics |-> [creatorId |-> ((p - 1) % MaxUsers) + 1, question |-> 0]]

\* broadcasts is history: the calls of broadcastPollUpdate the request made.
IdleRequest ==
    [pc |-> "idle", user |-> 0, option |-> 0, payload |-> 0, status |-> 0,
     broadcasts |-> 0]

(***************************************************************************)
(* Initial state: module load.                                             *)
(***************************************************************************)
ModuleLoaded ==
    /\ nextId = 1
    /\ clients = EmptyMap
    /\ pollSubscriptions = EmptyMap
    /\ authenticatedClients = EmptyMap
    /\ wsState = [c \in ConnIds |-> "NONE"]
    /\ sweepAge = 0
    /\ sent = <<>>
    /\ lastOp = Op("init", 0, 0)
    /\ isPublished = Topics
    /\ votes = {}
    /\ voteReq = [r \in Requests |-> IdleRequest]
    /\ polls = SeededPolls
    /\ pollReq = [r \in Requests |-> IdlePollRequest]
    /\ destroyed = [c \in ConnIds |-> NotRemoved]
    /\ granted = {}

Init == ModuleLoaded /\ wire = WireOff

(***************************************************************************)
(* wss.on('connection')                                                    *)
(***************************************************************************)
\* Mutant: the record is created authenticated.
NewClientInfoAuthenticated ==
    [authenticated |-> TRUE, userId |-> None, lastActivity |-> None, lastPing |-> 0]

\* const clientInfo = {...}: no lastActivity yet, lastPing is now.
NewClientInfo ==
    [authenticated |-> FALSE, userId |-> None, lastActivity |-> None, lastPing |-> 0]

Connect(limit) ==
    /\ nextId <= limit
    /\ LET clientId == nextId
           clientInfo == NewClientInfo
       IN  /\ clients' = MapSet(clients, clientId, clientInfo)
           /\ wsState' = [wsState EXCEPT ![clientId] = "OPEN"]
           /\ sent' = <<Out(clientId, Frame("connected", 0, clientId))>>
           /\ lastOp' = Op("connect", clientId, 0)
    /\ nextId' = nextId + 1
    /\ wire' = Logged(wire, sent', FALSE)
    /\ UNCHANGED <<pollSubscriptions, authenticatedClients, sweepAge>>
    /\ UNCHANGED <<dbVars, destroyed, granted>>

(***************************************************************************)
(* handleAuthentication: the new clients and authenticatedClients maps and *)
(* the frame answered.                                                     *)
(***************************************************************************)
\* Mutant: a token the verifier rejects ends the authentication.
HandleAuthenticationRejectRevokes(cl, ac, clientId, token) ==
    IF token = 0
    THEN [clients |-> cl, auth |-> ac,
          reply |-> ErrorFrame("auth_error", "Token is required")]
    ELSE LET decoded == JwtVerify(token)
         IN  IF decoded # None
             THEN [clients |->
                       IF clientId \in DOMAIN cl
                       THEN [cl EXCEPT ![clientId].authenticated = TRUE,
                                       ![clientId].userId = decoded]
                       ELSE cl,
                   auth |-> MapSet(ac, clientId, decoded[1]),
                   reply |-> Frame("authenticated", 0, decoded[1])]
             ELSE [clients |->
                       IF clientId \in DOMAIN cl
                       THEN [cl EXCEPT ![clientId].authenticated = FALSE,
                                       ![clientId].userId = None]
                       ELSE cl,
                   auth |-> MapDelete(ac, clientId),
                   reply |-> ErrorFrame("auth_error", "Invalid or expired token")]

\* Mutant: an authenticate frame without a token clears the flag.
HandleAuthenticationMissingClears(cl, ac, clientId, token) ==
    IF token = 0
    THEN [clients |->
              IF clientId \in DOMAIN cl
              THEN [cl EXCEPT ![clientId].authenticated = FALSE]
              ELSE cl,
          auth |-> ac,
          reply |-> ErrorFrame("auth_error", "Token is required")]
    ELSE LET decoded == JwtVerify(token)
         IN  IF decoded # None
             THEN [clients |->
                       IF clientId \in DOMAIN cl
                       THEN [cl EXCEPT ![clientId].authenticated = TRUE,
                                       ![clientId].userId = decoded]
                       ELSE cl,
                   auth |-> MapSet(ac, clientId, decoded[1]),
                   reply |-> Frame("authenticated", 0, decoded[1])]
             ELSE [clients |-> cl, auth |-> ac,
                   reply |-> ErrorFrame("auth_error", "Invalid or expired token")]

HandleAuthentication(cl, ac, clientId, token) ==
    IF token = 0
    THEN [clients |-> cl, auth |-> ac,
          reply |-> ErrorFrame("auth_error", "Token is required")]
    ELSE LET decoded == JwtVerify(token)
         IN  IF decoded # None
             THEN [clients |->
                       IF clientId \in DOMAIN cl
                       THEN [cl EXCEPT ![clientId].authenticated = TRUE,
                                       ![clientId].userId = decoded]
                       ELSE cl,
                   auth |-> MapSet(ac, clientId, decoded[1]),
                   reply |-> Frame("authenticated", 0, decoded[1])]
             ELSE [clients |-> cl, auth |-> ac,
                   reply |-> ErrorFrame("auth_error", "Invalid or expired token")]

(***************************************************************************)
(* handleMessage: the new maps and the frame answered to the sender.       *)
(***************************************************************************)
\* Mutant: no poll id counts as missing.
MissingPollIdNever(pollId) == FALSE

\* !pollId
MissingPollId(pollId) == pollId = 0

\* Mutant: the pong carries no timestamp.
PongFrameUnstamped == Frame("pong", 0, 0)

PongFrame == Stamped(Frame("pong", 0, 0))

\* Mutant: the frame leaves lastActivity as it was.
TouchNever(cl, clientId) == cl

\* if (clientInfo) clientInfo.lastActivity = new Date()
Touch(cl, clientId) ==
    IF clientId \in DOMAIN cl
    THEN [cl EXCEPT ![clientId].lastActivity = Some(0)]
    ELSE cl

HandleMessage(cl0, ps, ac, clientId, data) ==
    LET cl == Touch(cl0, clientId)
        same(reply) == [clients |-> cl, subs |-> ps, auth |-> ac, reply |-> reply]
    IN  CASE data.type = "authenticate" ->
                LET r == HandleAuthentication(cl, ac, clientId, data.data)
                IN  [clients |-> r.clients, subs |-> ps, auth |-> r.auth,
                     reply |-> r.reply]
          [] data.type = "subscribe" ->
                IF MissingPollId(data.pollId)
                THEN same(ErrorFrame("error", "Poll ID is required for subscription"))
                ELSE IF ~IsClientAuthenticated(cl, clientId)
                THEN same(ErrorFrame("error",
                                     "Authentication required for poll subscriptions"))
                ELSE [clients |-> cl,
                      subs |-> SubscribeToPoll(ps, clientId, data.pollId),
                      auth |-> ac,
                      reply |-> Frame("subscribed", data.pollId, 0)]
          [] data.type = "unsubscribe" ->
                IF MissingPollId(data.pollId)
                THEN same(ErrorFrame("error", "Poll ID is required for unsubscription"))
                ELSE [clients |-> cl,
                      subs |-> UnsubscribeFromPoll(ps, clientId, data.pollId),
                      auth |-> ac,
                      reply |-> Frame("unsubscribed", data.pollId, 0)]
          [] data.type = "ping" -> same(PongFrame)
          [] data.type = "getStats" ->
                IF IsClientAuthenticated(cl, clientId)
                THEN same(Frame("stats", 0, 0))
                ELSE same(ErrorFrame("error", "Authentication required"))
          [] OTHER -> same(ErrorFrame("error", "Unknown message type"))

\* The frames a client can send: a type with the field that type reads.
InFrames ==
    {Frame("authenticate", 0, tok) : tok \in TokenInputs}
    \cup {Frame(ty, p, 0) : ty \in {"subscribe", "unsubscribe"}, p \in PollIdInputs}
    \cup {Frame(ty, 0, 0) : ty \in {"ping", "getStats", "bogus"}}

\* Mutant: the answer goes to another registered connection as well.
ReplyAlsoToAnother(cl, c, frame) ==
    IF DOMAIN cl \ {c} = {}
    THEN <<Out(c, frame)>>
    ELSE <<Out(c, frame), Out(CHOOSE x \in DOMAIN cl \ {c} : TRUE, frame)>>

\* ws.send(JSON.stringify(frame)) on the socket the handler was set up for:
\* each path through handleMessage calls it once.
Reply(cl, c, frame) == <<Out(c, frame)>>

(***************************************************************************)
(* ws.on('message'): a frame that parses.  Frames are taken from sockets   *)
(* that are OPEN, whether or not the registry still holds their record.    *)
(***************************************************************************)
OnMessage(c, data) ==
    /\ wsState[c] = "OPEN"
    /\ LET r == HandleMessage(clients, pollSubscriptions, authenticatedClients, c, data)
       IN  /\ clients' = r.clients
           /\ pollSubscriptions' = r.subs
           /\ authenticatedClients' = r.auth
           /\ sent' = Reply(clients, c, r.reply)
           /\ granted' =
                 IF r.reply.type = "subscribed"
                 THEN granted \cup {<<c, r.reply.pollId>>}
                 ELSE IF r.reply.type = "unsubscribed"
                 THEN granted \ {<<c, r.reply.pollId>>}
                 ELSE granted
    /\ lastOp' = IF data.type \in {"subscribe", "unsubscribe"} /\ data.pollId # 0
                  THEN [Op("message", c, data.pollId) EXCEPT
                           !.before = SubscribersOf(pollSubscriptions, data.pollId)]
                  ELSE Op("message", c, 0)
    /\ wire' = Logged(wire, sent', FALSE)
    /\ UNCHANGED <<nextId, wsState, sweepAge, dbVars, destroyed>>

(***************************************************************************)
(* ws.on('message'): the catch block.                                      *)
(***************************************************************************)
OnInvalidJson(c) ==
    /\ wsState[c] = "OPEN"
    /\ sent' = <<Out(c, ErrorFrame("error", "Invalid JSON format"))>>
    /\ lastOp' = Op("invalidJson", c, 0)
    /\ wire' = Logged(wire, sent', FALSE)
    /\ UNCHANGED <<wsVars, dbVars, destroyed, granted>>

(***************************************************************************)
(* ws.on('message') for a message that is not the text of a JSON object:   *)
(* text that is not JSON, the text null, and the text of a number.         *)
(***************************************************************************)
NotObjects == {"{oops", "null", "42"}

\* JSON.parse: the value, or threw when the text is not JSON.
JsonParse(message) ==
    CASE message = "null" -> [threw |-> FALSE, value |-> "null"]
      [] message = "42" -> [threw |-> FALSE, value |-> "number"]
      [] OTHER -> [threw |-> TRUE, value |-> "none"]

\* const { type, pollId, token } = data: reading a property of null throws,
\* a number has none of the three properties.
DestructureThrows(value) == value = "null"
Destructure(value) == Frame("undefined", 0, 0)

OnNotObject(c, message) ==
    LET parsed == JsonParse(message)
    IN  IF parsed.threw \/ DestructureThrows(parsed.value)
        THEN OnInvalidJson(c)
        ELSE OnMessage(c, Destructure(parsed.value))

(***************************************************************************)
(* ws.on('close')                                                          *)
(***************************************************************************)
\* The three maps of the module.
Registry ==
    [clients |-> clients, auth |-> authenticatedClients, subs |-> pollSubscriptions]

\* The three removals of the close handler.
CloseRemoval(reg, c) ==
    [clients |-> MapDelete(reg.clients, c),
     auth |-> MapDelete(reg.auth, c),
     subs |-> RemoveFromPollSubscriptions(reg.subs, c)]

OnClose(c) ==
    /\ wsState[c] \in {"OPEN", "CLOSING"}
    /\ wsState' = [wsState EXCEPT ![c] = "CLOSED"]
    /\ LET r == CloseRemoval(Registry, c)
       IN  /\ clients' = r.clients
           /\ authenticatedClients' = r.auth
           /\ pollSubscriptions' = r.subs
    /\ sent' = <<>>
    /\ lastOp' = [Op("close", c, 0) EXCEPT !.removedBy = destroyed[c].by]
    /\ destroyed' = [destroyed EXCEPT ![c] = Removed("close", pollSubscriptions, c)]
    /\ granted' = Revoke(granted, {c})
    /\ UNCHANGED <<nextId, sweepAge, dbVars, wire>>

(***************************************************************************)
(* The transport leaves OPEN (close frame received, socket error, peer     *)
(* gone): readyState is no longer OPEN, the 'close' event is still to be   *)
(* emitted.                                                                *)
(***************************************************************************)
TransportDown(c) ==
    /\ wsState[c] = "OPEN"
    /\ wsState' = [wsState EXCEPT ![c] = "CLOSING"]
    /\ sent' = <<>>
    /\ lastOp' = Op("transportDown", c, 0)
    /\ UNCHANGED <<nextId, clients, pollSubscriptions, authenticatedClients, sweepAge>>
    /\ UNCHANGED <<dbVars, histVars>>

(***************************************************************************)
(* ws.on('pong')                                                           *)
(***************************************************************************)
OnPong(c) ==
    /\ wsState[c] = "OPEN"
    /\ clients' = IF c \in DOMAIN clients
                  THEN [clients EXCEPT ![c].lastPing = 0]
                  ELSE clients
    /\ sent' = <<>>
    /\ lastOp' = Op("pong", c, 0)
    /\ UNCHANGED <<nextId, pollSubscriptions, authenticatedClients, wsState, sweepAge>>
    /\ UNCHANGED <<dbVars, histVars>>

(***************************************************************************)
(* broadcastPollUpdate.  The forEach over the live Set is a loop over the  *)
(* insertion-ordered sequence: st.i is the position of the entry visited   *)
(* next; deleting the entry being visited leaves every later entry to be   *)
(* visited.  The loop state carries the maps it changes.                   *)
(***************************************************************************)
\* ws.send(message) succeeded.
SendOk(st, clientId, message) ==
    [st EXCEPT !.out = Append(st.out, Out(clientId, message)),
               !.successCount = st.successCount + 1,
               !.i = st.i + 1]

\* Mutant: the exception leaves the forEach and the function.
CatchSendErrorRethrows(st, clientId) == [st EXCEPT !.threw = TRUE]

\* Mutant: the removal makes the iteration pass over the next subscriber.
CatchSendErrorSkipsNext(st, clientId) ==
    [st EXCEPT !.clients = MapDelete(st.clients, clientId),
               !.subs = SetDelete(st.subs, clientId),
               !.failCount = st.failCount + 1,
               !.i = st.i + 1]

\* catch (error): ws.send threw.
CatchSendError(st, clientId) ==
    [st EXCEPT !.clients = MapDelete(st.clients, clientId),
               !.subs = SetDelete(st.subs, clientId),
               !.failCount = st.failCount + 1]

\* Mutant: the removal makes the iteration pass over the next subscriber.
CleanUpDeadSkipsNext(st, clientId) ==
    [st EXCEPT !.subs = SetDelete(st.subs, clientId),
               !.failCount = st.failCount + 1,
               !.i = st.i + 1]

\* else: no clientInfo, or readyState is not OPEN.
CleanUpDead(st, clientId) ==
    [st EXCEPT !.subs = SetDelete(st.subs, clientId),
               !.failCount = st.failCount + 1]

\* One call of the forEach callback.
\* visited and attempted are history: the clients the callback was called
\* for, and those whose ws.send was called, in call order.
BroadcastVisit(st, clientId, message, ws, throwers) ==
    LET seen == [st EXCEPT !.visited = Append(@, clientId)]
        tried == [seen EXCEPT !.attempted = Append(@, clientId)]
    IN  IF clientId \in DOMAIN st.clients /\ ws[clientId] = "OPEN"
        THEN IF clientId \in throwers
             THEN CatchSendError(tried, clientId)
             ELSE SendOk(tried, clientId, message)
        ELSE CleanUpDead(seen, clientId)

RECURSIVE ForEachSubscriber(_, _, _, _)
ForEachSubscriber(st, message, ws, throwers) ==
    IF st.threw \/ st.i > Len(st.subs)
    THEN st
    ELSE ForEachSubscriber(BroadcastVisit(st, st.subs[st.i], message, ws, throwers),
                           message, ws, throwers)

\* Mutant: a poll without an entry is given an empty one.
NoSubscribersCreatesEntry(cl, ps, pollId) ==
    [clients |-> cl, subs |-> MapSet(ps, pollId, <<>>), out |-> <<>>,
     successCount |-> 0, failCount |-> 0, threw |-> FALSE, visited |-> <<>>,
     attempted |-> <<>>]

\* if (!pollSubscriptions.has(pollId)) return;
NoSubscribers(cl, ps, pollId) ==
    [clients |-> cl, subs |-> ps, out |-> <<>>, successCount |-> 0,
     failCount |-> 0, threw |-> FALSE, visited |-> <<>>, attempted |-> <<>>]

\* The whole call: the loop's final state, or the untouched state when the
\* poll has no entry.
BroadcastPollUpdate(cl, ps, ws, pollId, pollData, throwers) ==
    IF pollId \notin DOMAIN ps
    THEN NoSubscribers(cl, ps, pollId)
    ELSE LET message == Stamped(Frame("pollUpdate", pollId, pollData))
             st0 == [subs |-> ps[pollId], i |-> 1, clients |-> cl, out |-> <<>>,
                     successCount |-> 0, failCount |-> 0, threw |-> FALSE,
                     visited |-> <<>>, attempted |-> <<>>]
             st == ForEachSubscriber(st0, message, ws, throwers)
         IN  [clients |-> st.clients, subs |-> MapSet(ps, pollId, st.subs),
              out |-> st.out, successCount |-> st.successCount,
              failCount |-> st.failCount, threw |-> st.threw,
              visited |-> st.visited, attempted |-> st.attempted]

\* The subscribers broadcastPollUpdate calls send() on: the only sockets
\* whose send() can throw in the call.
Sendable(pollId) ==
    {c \in Range(SubscribersOf(pollSubscriptions, pollId)) :
        c \in DOMAIN clients /\ wsState[c] = "OPEN"}

(***************************************************************************)
(* The data-change producer calls broadcastPollUpdate(pollId, pollData).   *)
(* throwers are the sockets whose send() throws during this call.          *)
(***************************************************************************)
Publish(pollId, pollData, throwers) ==
    /\ LET r == BroadcastPollUpdate(clients, pollSubscriptions, wsState,
                                    pollId, pollData, throwers)
       IN  /\ clients' = r.clients
           /\ pollSubscriptions' = r.subs
           /\ sent' = r.out
           /\ lastOp' = [Op("publish", 0, pollId) EXCEPT
                            !.before = SubscribersOf(pollSubscriptions, pollId),
                            !.throwers = throwers,
                            !.successCount = r.successCount,
                            !.failCount = r.failCount,
                            !.visited = r.visited,
                            !.attempted = r.attempted,
                            !.returned = IF r.threw THEN "threw" ELSE "normal"]
           /\ destroyed' = [c \in ConnIds |->
                               IF c \in (DOMAIN clients) \ (DOMAIN r.clients)
                               THEN Removed("broadcast", pollSubscriptions, c)
                               ELSE destroyed[c]]
           /\ granted' = Revoke(granted, (DOMAIN clients) \ (DOMAIN r.clients))
           /\ wire' = Logged(wire, r.out, TRUE)
    /\ UNCHANGED <<nextId, authenticatedClients, wsState, sweepAge, dbVars>>

(***************************************************************************)
(* cleanupInactiveConnections, run by setInterval every CleanupIntervalMs. *)
(***************************************************************************)
RECURSIVE RemoveAll(_, _)
RemoveAll(ps, ids) ==
    IF ids = {} THEN ps
    ELSE LET c == CHOOSE x \in ids : TRUE
         IN  RemoveAll(RemoveFromPollSubscriptions(ps, c), ids \ {c})

SweepDue == sweepAge * TickMs >= CleanupIntervalMs

\* The clients the loop finds past the inactivity threshold.
InactiveIn(cl) == {c \in DOMAIN cl : IsInactive(cl[c])}

\* The removals of one run of the loop.
SweepRemoval(reg) ==
    LET inactive == InactiveIn(reg.clients)
    IN  [clients |-> [c \in (DOMAIN reg.clients) \ inactive |-> reg.clients[c]],
         auth |-> [c \in (DOMAIN reg.auth) \ inactive |-> reg.auth[c]],
         subs |-> RemoveAll(reg.subs, inactive)]

CleanupInactiveConnections ==
    /\ SweepDue
    /\ LET inactive == InactiveIn(clients)
           r == SweepRemoval(Registry)
       IN  /\ wsState' = [c \in ConnIds |->
                            IF c \in inactive /\ wsState[c] = "OPEN"
                            THEN "CLOSING" ELSE wsState[c]]
           /\ clients' = r.clients
           /\ authenticatedClients' = r.auth
           /\ pollSubscriptions' = r.subs
           /\ lastOp' = [Op("sweep", 0, 0) EXCEPT
                            !.closed = {CloseCall(c, CleanupCloseCode, CleanupCloseReason) :
                                           c \in {x \in inactive : wsState[x] = "OPEN"}}]
           /\ destroyed' = [c \in ConnIds |->
                               IF c \in inactive
                               THEN Removed("sweep", pollSubscriptions, c)
                               ELSE destroyed[c]]
           /\ granted' = Revoke(granted, inactive)
    /\ sweepAge' = 0
    /\ sent' = <<>>
    /\ UNCHANGED <<nextId, dbVars, wire>>

(***************************************************************************)
(* TickMs of time pass.  Every timestamp ages; each connection's ping      *)
(* interval fires within the tick and, while its socket is OPEN, pings and *)
(* sets lastPing to now.                                                   *)
(***************************************************************************)
Older(age) == IF age < MaxAge THEN age + 1 ELSE MaxAge

PingIntervalFired(ci, readyState) ==
    IF PingIntervalMs <= TickMs /\ readyState = "OPEN"
    THEN [ci EXCEPT !.lastPing = 0]
    ELSE ci

Aged(ci) ==
    [ci EXCEPT !.lastPing = Older(ci.lastPing),
               !.lastActivity = IF ci.lastActivity = None THEN None
                                ELSE Some(Older(ci.lastActivity[1]))]

Tick ==
    /\ ~SweepDue
    /\ clients' = [c \in DOMAIN clients |->
                      PingIntervalFired(Aged(clients[c]), wsState[c])]
    /\ sweepAge' = sweepAge + 1
    /\ sent' = <<>>
    /\ lastOp' = Op("tick", 0, 0)
    /\ UNCHANGED <<nextId, pollSubscriptions, authenticatedClients, wsState>>
    /\ UNCHANGED <<dbVars, histVars>>

(***************************************************************************)
(* POST /api/votes (router.post('/')).  The handler runs up to each await; *)
(* every action below is one database call together with the synchronous   *)
(* code that follows it.  voteReq[r].user is req.user.id, set by the        *)
(* authenticateToken middleware.                                            *)
(***************************************************************************)
\* res.status(status): the request is over, its locals are gone.
Respond(r, status) ==
    [voteReq EXCEPT ![r] = [pc |-> "done", user |-> 0, option |-> 0, payload |-> 0,
                            status |-> status, broadcasts |-> voteReq[r].broadcasts]]
Goto(r, pc) == [voteReq EXCEPT ![r].pc = pc]

\* The votes of a user in a poll (prisma.vote.findFirst's where clause).
VotesInPoll(user, pollId) ==
    {v \in votes : v[1] = user /\ PollOf(v[2]) = pollId}

\* updatedPoll's totalVotes.
TotalVotes(pollId) == Cardinality({v \in votes : PollOf(v[2]) = pollId})

\* The authenticateToken middleware answers a request without a valid
\* token; the handler does not run.
VoteUnauthorized(r) ==
    /\ voteReq[r].pc = "idle"
    /\ voteReq' = Respond(r, 401)
    /\ sent' = <<>>
    /\ lastOp' = Op("voteUnauthorized", r, 0)
    /\ UNCHANGED <<wsVars, isPublished, votes, pollVars, histVars>>

VoteBegin(r, user, option) ==
    /\ voteReq[r].pc = "idle"
    /\ voteReq' =
          IF option = 0
          THEN Respond(r, 400)
          ELSE [voteReq EXCEPT ![r] = [pc |-> "findOption", user |-> user,
                                       option |-> option, payload |-> 0, status |-> 0,
                                       broadcasts |-> 0]]
    /\ sent' = <<>>
    /\ lastOp' = Op("voteBegin", r, 0)
    /\ UNCHANGED <<wsVars, isPublished, votes, pollVars, histVars>>

\* await prisma.pollOption.findUnique, then the 404 and 400 checks.
VoteFindOption(r) ==
    /\ voteReq[r].pc = "findOption"
    /\ voteReq' =
          IF voteReq[r].option \notin Options
          THEN Respond(r, 404)
          ELSE IF PollOf(voteReq[r].option) \notin isPublished
          THEN Respond(r, 400)
          ELSE Goto(r, "findExisting")
    /\ sent' = <<>>
    /\ lastOp' = Op("voteFindOption", r, 0)
    /\ UNCHANGED <<wsVars, isPublished, votes, pollVars, histVars>>

\* await prisma.vote.findUnique (userId_pollOptionId), then the 409 check.
VoteFindExisting(r) ==
    /\ voteReq[r].pc = "findExisting"
    /\ voteReq' =
          IF <<voteReq[r].user, voteReq[r].option>> \in votes
          THEN Respond(r, 409)
          ELSE Goto(r, "findInPoll")
    /\ sent' = <<>>
    /\ lastOp' = Op("voteFindExisting", r, 0)
    /\ UNCHANGED <<wsVars, isPublished, votes, pollVars, histVars>>

\* await prisma.vote.findFirst (any vote of the user in the poll), then 409.
VoteFindInPoll(r) ==
    /\ voteReq[r].pc = "findInPoll"
    /\ voteReq' =
          IF VotesInPoll(voteReq[r].user, PollOf(voteReq[r].option)) # {}
          THEN Respond(r, 409)
          ELSE Goto(r, "create")
    /\ sent' = <<>>
    /\ lastOp' = Op("voteFindInPoll", r, 0)
    /\ UNCHANGED <<wsVars, isPublished, votes, pollVars, histVars>>

\* Mutant: the row is not written.
VoteCreateLosesRow(r) ==
    /\ voteReq[r].pc = "create"
    /\ voteReq' = Goto(r, "reload")
    /\ votes' = votes
    /\ sent' = <<>>
    /\ lastOp' = Op("voteCreate", r, 0)
    /\ UNCHANGED <<wsVars, isPublished, pollVars, histVars>>

\* await prisma.vote.create: the row is committed, or the unique key
\* (userId, pollOptionId) rejects it and the catch answers 500.
VoteCreate(r) ==
    /\ voteReq[r].pc = "create"
    /\ IF <<voteReq[r].user, voteReq[r].option>> \in votes
       THEN /\ voteReq' = Respond(r, 500)
            /\ votes' = votes
       ELSE /\ voteReq' = Goto(r, "reload")
            /\ votes' = votes \cup {<<voteReq[r].user, voteReq[r].option>>}
    /\ sent' = <<>>
    /\ lastOp' = Op("voteCreate", r, 0)
    /\ UNCHANGED <<wsVars, isPublished, pollVars, histVars>>

\* await prisma.poll.findUnique: updatedPoll with its vote counts.
VoteReload(r) ==
    /\ voteReq[r].pc = "reload"
    /\ voteReq' = [voteReq EXCEPT ![r].pc = "broadcast",
                                  ![r].payload = TotalVotes(PollOf(voteReq[r].option))]
    /\ sent' = <<>>
    /\ lastOp' = Op("voteReload", r, 0)
    /\ UNCHANGED <<wsVars, isPublished, votes, pollVars, histVars>>

\* broadcastPollUpdate(pollOption.poll.id, pollWithVoteCounts), then
\* res.status(201); an exception out of the broadcast reaches the catch.
VoteBroadcast(r, throwers) ==
    /\ voteReq[r].pc = "broadcast"
    /\ LET pollId == PollOf(voteReq[r].option)
           b == BroadcastPollUpdate(clients, pollSubscriptions, wsState,
                                    pollId, voteReq[r].payload, throwers)
       IN  /\ clients' = b.clients
           /\ pollSubscriptions' = b.subs
           /\ sent' = b.out
           /\ lastOp' = [Op("voteBroadcast", r, pollId) EXCEPT
                            !.before = SubscribersOf(pollSubscriptions, pollId),
                            !.throwers = throwers,
                            !.successCount = b.successCount,
                            !.failCount = b.failCount,
                            !.visited = b.visited,
                            !.attempted = b.attempted,
                            !.returned = IF b.threw THEN "threw" ELSE "normal"]
           /\ voteReq' = [Respond(r, IF b.threw THEN 500 ELSE 201) EXCEPT
                              ![r].broadcasts = @ + 1]
           /\ destroyed' = [c \in ConnIds |->
                               IF c \in (DOMAIN clients) \ (DOMAIN b.clients)
                               THEN Removed("broadcast", pollSubscriptions, c)
                               ELSE destroyed[c]]
           /\ granted' = Revoke(granted, (DOMAIN clients) \ (DOMAIN b.clients))
           /\ wire' = Logged(wire, b.out, TRUE)
    /\ UNCHANGED <<nextId, authenticatedClients, wsState, sweepAge, isPublished, votes,
                 pollVars>>

\* The frames of the full specification: every frame type, with the tokens
\* of the first user only.  Which user a token names changes nothing that
\* the registry's keys, the subscriber sets, a broadcast or the sweeper read;
\* the subscription-index specification below takes every token.
SpecFrames ==
    {f \in InFrames : f.type = "authenticate" => f.data \in {0, 1, MaxUsers + 1}}

Next ==
    \/ Connect(MaxConns)
    \/ \E c \in ConnIds, data \in SpecFrames : OnMessage(c, data)
    \/ \E c \in ConnIds, message \in NotObjects : OnNotObject(c, message)
    \/ \E c \in ConnIds : OnClose(c)
    \/ \E c \in ConnIds : TransportDown(c)
    \/ \E c \in ConnIds : OnPong(c)
    \/ \E pollId \in Topics, pollData \in Payloads :
          \E throwers \in SUBSET Sendable(pollId) :
             Publish(pollId, pollData, throwers)
    \/ CleanupInactiveConnections
    \/ Tick

Spec == Init /\ [][Next]_vars

(***************************************************************************)
(* The state after n connections have connected and authenticated with the *)
(* token of user 1, in the order of their ids.                             *)
(***************************************************************************)
Established(n) ==
    /\ nextId = n + 1
    /\ clients = [c \in 1..n |-> [authenticated |-> TRUE, userId |-> Some(1),
                                  lastActivity |-> Some(0), lastPing |-> 0]]
    /\ pollSubscriptions = EmptyMap
    /\ authenticatedClients = [c \in 1..n |-> 1]
    /\ wsState = [c \in ConnIds |-> IF c <= n THEN "OPEN" ELSE "NONE"]
    /\ sweepAge = 0
    /\ sent = <<Out(n, Frame("authenticated", 0, 1))>>
    /\ lastOp = Op("message", n, 0)
    /\ votes = {}
    /\ voteReq = [r \in Requests |-> IdleRequest]
    /\ polls = SeededPolls
    /\ pollReq = [r \in Requests |-> IdlePollRequest]
    /\ destroyed = [c \in ConnIds |-> NotRemoved]
    /\ granted = {}
    /\ wire = WireOff

(***************************************************************************)
(* The fan-out specification: MaxSubscribers authenticated connections     *)
(* that subscribe and unsubscribe and lose their transport, and publishes  *)
(* to them.                                                                *)
(***************************************************************************)
FanoutInit == Established(MaxSubscribers) /\ isPublished = Topics

FanoutFrames ==
    {Frame(ty, p, 0) : ty \in {"subscribe", "unsubscribe"}, p \in Topics}

\* The loop of broadcastPollUpdate does not read pollData: one payload value
\* is published here.
FanoutPayloads == {MaxPayloads}

FanoutNext ==
    \/ \E c \in ConnIds, data \in FanoutFrames : OnMessage(c, data)
    \/ \E c \in ConnIds : TransportDown(c)
    \/ \E pollId \in Topics, pollData \in FanoutPayloads :
          \E throwers \in SUBSET Sendable(pollId) :
             Publish(pollId, pollData, throwers)

FanoutSpec == FanoutInit /\ [][FanoutNext]_vars

(***************************************************************************)
(* The vote specification: vote requests served one after the other, over  *)
(* MaxConns authenticated connections that subscribe and lose their        *)
(* transport.                                                              *)
(***************************************************************************)
VoteInit == Established(MaxConns) /\ isPublished \in SUBSET Topics

VoteFrames == {Frame("subscribe", p, 0) : p \in Topics}

InFlight == \E r \in Requests : voteReq[r].pc \notin {"idle", "done"}

VoteNext ==
    \/ \E r \in Requests, user \in Users, option \in OptionInputs :
          ~InFlight /\ VoteBegin(r, user, option)
    \/ \E r \in Requests : VoteFindOption(r)
    \/ \E r \in Requests : VoteFindExisting(r)
    \/ \E r \in Requests : VoteFindInPoll(r)
    \/ \E r \in Requests : VoteCreate(r)
    \/ \E r \in Requests : VoteReload(r)
    \/ \E r \in Requests :
          \E throwers \in SUBSET Sendable(PollOf(voteReq[r].option)) :
             VoteBroadcast(r, throwers)
    \/ \E c \in ConnIds, data \in VoteFrames : OnMessage(c, data)
    \/ \E c \in ConnIds : TransportDown(c)

VoteSpec == VoteInit /\ [][VoteNext]_vars

(***************************************************************************)
(* PUT /api/polls/:id and DELETE /api/polls/:id.  Each action is one       *)
(* database call with the synchronous code that follows it; req.user.id is *)
(* set by the authenticateToken middleware.                                *)
(***************************************************************************)
\* An id as the path carries it: MaxTopics + 1 is the id of no poll.
PollIdParams == 1..(MaxTopics + 1)

PollRespond(r, status) == [pollReq EXCEPT ![r] = [IdlePollRequest EXCEPT
                                                     !.pc = "done",
                                                     !.status = status]]

PollBegin(r, method, user, id, question, published) ==
    /\ pollReq[r].pc = "idle"
    /\ pollReq' = [pollReq EXCEPT ![r] =
                      [pc |-> "find", method |-> method, user |-> user, id |-> id,
                       question |-> IF method = "PUT" THEN question ELSE 0,
                       isPublished |-> IF method = "PUT" THEN published ELSE "undefined",
                       status |-> 0]]
    /\ sent' = <<>>
    /\ lastOp' = Op("pollBegin", r, 0)
    /\ UNCHANGED <<wsVars, isPublished, votes, voteReq, polls, histVars>>

\* Mutant: the creator is not compared with the requester.
PollFindAnyRequester(r) ==
    /\ pollReq[r].pc = "find"
    /\ pollReq' =
          IF pollReq[r].id \notin DOMAIN polls
          THEN PollRespond(r, 404)
          ELSE [pollReq EXCEPT ![r].pc = "write"]
    /\ sent' = <<>>
    /\ lastOp' = Op("pollFind", r, 0)
    /\ UNCHANGED <<wsVars, isPublished, votes, voteReq, polls, histVars>>

\* await prisma.poll.findUnique, then the 404 and 403 checks.
PollFind(r) ==
    /\ pollReq[r].pc = "find"
    /\ pollReq' =
          IF pollReq[r].id \notin DOMAIN polls
          THEN PollRespond(r, 404)
          ELSE IF polls[pollReq[r].id].creatorId # pollReq[r].user
          THEN PollRespond(r, 403)
          ELSE [pollReq EXCEPT ![r].pc = "write"]
    /\ sent' = <<>>
    /\ lastOp' = Op("pollFind", r, 0)
    /\ UNCHANGED <<wsVars, isPublished, votes, voteReq, polls, histVars>>

\* updateData: the fields of the body that are not undefined.
Updated(row, question) ==
    IF question # 0 THEN [row EXCEPT !.question = question] ELSE row

\* await prisma.poll.update / prisma.poll.delete, then the answer.  The
\* call throws when the row is gone (500); a delete can also be refused by
\* the database (rows that reference the poll), which the code does not
\* decide.
PollWrite(r, refused) ==
    /\ pollReq[r].pc = "write"
    /\ LET id == pollReq[r].id
       IN  IF id \notin DOMAIN polls \/ (refused /\ pollReq[r].method = "DELETE")
           THEN /\ pollReq' = PollRespond(r, 500)
                /\ UNCHANGED <<polls, isPublished, votes>>
           ELSE IF pollReq[r].method = "PUT"
           THEN /\ polls' = [polls EXCEPT ![id] = Updated(@, pollReq[r].question)]
                /\ isPublished' =
                      CASE pollReq[r].isPublished = "true" -> isPublished \cup {id}
                        [] pollReq[r].isPublished = "false" -> isPublished \ {id}
                        [] OTHER -> isPublished
                /\ votes' = votes
                /\ pollReq' = PollRespond(r, 200)
           ELSE /\ polls' = MapDelete(polls, id)
                /\ isPublished' = isPublished \ {id}
                /\ votes' = {v \in votes : PollOf(v[2]) # id}
                /\ pollReq' = PollRespond(r, 204)
    /\ sent' = <<>>
    /\ lastOp' = [Op("pollWrite", r, pollReq[r].id) EXCEPT
                     !.conn = pollReq[r].user, !.returned = pollReq[r].method]
    /\ UNCHANGED <<wsVars, voteReq, histVars>>

(***************************************************************************)
(* The poll specification: MaxRequests PUT and DELETE requests whose        *)
(* handlers run interleaved at their awaits.                               *)
(***************************************************************************)
PollNext ==
    \/ \E r \in Requests, method \in {"PUT", "DELETE"}, user \in Users,
          id \in PollIdParams, question \in {0, 1},
          published \in {"undefined", "true", "false"} :
             PollBegin(r, method, user, id, question, published)
    \/ \E r \in Requests : PollFind(r)
    \/ \E r \in Requests, refused \in BOOLEAN : PollWrite(r, refused)

PollSpec == Init /\ [][PollNext]_vars

(***************************************************************************)
(* The concurrent vote specification: MaxRequests vote requests whose       *)
(* handlers run interleaved at their awaits, and one authenticated         *)
(* connection that subscribes.                                             *)
(***************************************************************************)
RaceInit == Established(1) /\ isPublished \in SUBSET Topics

RaceNext ==
    \/ \E r \in Requests, user \in Users, option \in OptionInputs :
          VoteBegin(r, user, option)
    \/ \E r \in Requests : VoteUnauthorized(r)
    \/ \E r \in Requests : VoteFindOption(r)
    \/ \E r \in Requests : VoteFindExisting(r)
    \/ \E r \in Requests : VoteFindInPoll(r)
    \/ \E r \in Requests : VoteCreate(r)
    \/ \E r \in Requests : VoteReload(r)
    \/ \E r \in Requests :
          \E throwers \in SUBSET Sendable(PollOf(voteReq[r].option)) :
             VoteBroadcast(r, throwers)
    \/ \E c \in ConnIds, data \in VoteFrames : OnMessage(c, data)

RaceSpec == RaceInit /\ [][RaceNext]_vars

(***************************************************************************)
(* The ordering specification: connections that connect, authenticate,     *)
(* subscribe and ping, and publishes to them, with every frame handed to   *)
(* ws.send recorded in call order.                                         *)
(***************************************************************************)
WireInit == ModuleLoaded /\ wire = WireOn

WireFrames ==
    {Frame("authenticate", 0, 1), Frame("ping", 0, 0)}
    \cup {Frame(ty, p, 0) : ty \in {"subscribe", "unsubscribe"}, p \in Topics}

WireNext ==
    /\ Len(wire.frames) < MaxWire
    /\ wire.calls < MaxCalls
    /\ \/ Connect(MaxConns)
       \/ \E c \in ConnIds, data \in WireFrames : OnMessage(c, data)
       \/ \E pollId \in Topics, pollData \in Payloads :
             \E throwers \in SUBSET Sendable(pollId) :
                Publish(pollId, pollData, throwers)

WireSpec == WireInit /\ [][WireNext]_vars

(***************************************************************************)
(* The subscription-index specification: connections that authenticate,    *)
(* subscribe, unsubscribe and go away (close event, sweeper), with no      *)
(* publish.                                                                *)
(***************************************************************************)
IndexNext ==
    \/ Connect(MaxConns)
    \/ \E c \in ConnIds, data \in InFrames : OnMessage(c, data)
    \/ \E c \in ConnIds : OnClose(c)
    \/ \E c \in ConnIds : TransportDown(c)
    \/ CleanupInactiveConnections
    \/ Tick

IndexSpec == Init /\ [][IndexNext]_vars

(***************************************************************************)
(* The full specification with its timers running: time passes and the     *)
(* sweep interval fires whenever it is due.                                *)
(***************************************************************************)
LiveSpec == Spec /\ WF_vars(Tick) /\ WF_vars(CleanupInactiveConnections)

(***************************************************************************)
(* Vocabulary of the properties.                                           *)
(***************************************************************************)
\* The last handler was a call of broadcastPollUpdate.
IsPublish == lastOp.op \in {"publish", "voteBroadcast"}

\* The pollUpdate frames the last handler sent to a connection.
UpdatesTo(c) ==
    {i \in 1..Len(sent) : sent[i].to = c /\ sent[i].frame.type = "pollUpdate"}

\* Subscribers of the published poll whose send failed in the last publish:
\* send threw, the socket was not OPEN, or the registry had no record.
FailedSubscribers ==
    {c \in Range(lastOp.before) :
        c \in lastOp.throwers \/ wsState[c] # "OPEN" \/ c \notin DOMAIN clients}

\* The polls whose subscriber set holds a connection.
SubscribedTopics(c) == TopicsOf(pollSubscriptions, c)

(***************************************************************************)
(* C1: in every reachable state no poll id of pollSubscriptions maps to an *)
(* empty subscriber set.                                                   *)
(***************************************************************************)
C1_NoEmptyTopics ==
    \A p \in DOMAIN pollSubscriptions : Len(pollSubscriptions[p]) > 0

(***************************************************************************)
(* C2: when a send to a subscriber fails during a publish, that connection *)
(* is removed from the registry and from the subscriber set of every poll. *)
(***************************************************************************)
C2_FailedSubscriberFullyRemoved ==
    IsPublish =>
        \A c \in FailedSubscribers :
            c \notin DOMAIN clients /\ SubscribedTopics(c) = {}

(***************************************************************************)
(* C3: every client id in a subscriber set is the id of a client in the    *)
(* registry.                                                               *)
(***************************************************************************)
C3_NoDanglingSubscriber ==
    \A p \in DOMAIN pollSubscriptions :
        Range(pollSubscriptions[p]) \subseteq DOMAIN clients

(***************************************************************************)
(* C4: a publish delivers the pollUpdate to every subscriber whose send    *)
(* does not fail, wherever the failing subscribers stand in the iteration  *)
(* order, and no failing subscriber is in the poll's set when it returns.  *)
(***************************************************************************)
C4_PartialFailureIsolation ==
    IsPublish =>
        /\ \A b \in FailedSubscribers :
              b \notin Range(SubscribersOf(pollSubscriptions, lastOp.topic))
        /\ \A a \in Range(lastOp.before) \ FailedSubscribers : UpdatesTo(a) # {}

\* Three subscribers, the one in the middle fails, the two others are served.
C4_Witness ==
    /\ lastOp.op = "publish"
    /\ Len(lastOp.before) = 3
    /\ FailedSubscribers = {lastOp.before[2]}
    /\ UpdatesTo(lastOp.before[1]) # {}
    /\ UpdatesTo(lastOp.before[3]) # {}
    /\ lastOp.before[2] \notin Range(SubscribersOf(pollSubscriptions, lastOp.topic))

(***************************************************************************)
(* C5: a connection removed by its close event or by the sweeper is absent *)
(* from the registry and from every subscriber set, and no later publish   *)
(* visits it.                                                              *)
(***************************************************************************)
C5_DisconnectCleanup ==
    \A c \in ConnIds :
        destroyed[c].by \in {"close", "sweep"} =>
            /\ c \notin DOMAIN clients
            /\ SubscribedTopics(c) = {}
            /\ IsPublish => c \notin Range(lastOp.before) /\ UpdatesTo(c) = {}

\* A publish to a poll that a swept connection was subscribed to reaches
\* another subscriber.
C5_Witness ==
    \E c \in ConnIds :
        /\ destroyed[c].by = "sweep"
        /\ lastOp.op = "publish"
        /\ lastOp.topic \in destroyed[c].topics
        /\ lastOp.successCount > 0

(***************************************************************************)
(* C6: a subscribe frame from a connection that has not authenticated is   *)
(* answered with an error and adds no subscription; the same frame from a  *)
(* connection that was just answered 'authenticated' is answered           *)
(* 'subscribed' and puts the connection in the poll's subscriber set.      *)
(***************************************************************************)
SubscribeNow(c, p) ==
    HandleMessage(clients, pollSubscriptions, authenticatedClients, c,
                  Frame("subscribe", p, 0))

C6_AuthGating ==
    \A c \in ConnIds, p \in Topics :
        wsState[c] = "OPEN" =>
            /\ (c \in DOMAIN clients /\ ~clients[c].authenticated) =>
                  /\ SubscribeNow(c, p).reply.type = "error"
                  /\ SubscribeNow(c, p).subs = pollSubscriptions
            /\ (lastOp.op = "message" /\ lastOp.conn = c
                /\ Len(sent) = 1 /\ sent[1].frame.type = "authenticated") =>
                  /\ SubscribeNow(c, p).reply.type = "subscribed"
                  /\ c \in Range(SubscribersOf(SubscribeNow(c, p).subs, p))

(***************************************************************************)
(* C7: a pollUpdate for a poll is sent to a connection only if it          *)
(* subscribed to the poll while authenticated and has not since            *)
(* unsubscribed from it or been destroyed.                                 *)
(***************************************************************************)
C7_OnlyGrantedReceive ==
    IsPublish =>
        \A i \in 1..Len(sent) :
            /\ sent[i].frame.type = "pollUpdate"
            /\ sent[i].frame.pollId = lastOp.topic
            /\ <<sent[i].to, lastOp.topic>> \in granted
            /\ sent[i].to \in DOMAIN clients
            /\ clients[sent[i].to].authenticated

\* A publish serves its one subscriber while another registered connection,
\* open and not authenticated, gets nothing.
C7_Witness ==
    /\ lastOp.op = "publish"
    /\ Len(sent) = 1
    /\ \E c \in DOMAIN clients :
          /\ wsState[c] = "OPEN"
          /\ c # sent[1].to
          /\ ~clients[c].authenticated

(***************************************************************************)
(* C8 as claimed: every subscriber of the poll whose transport is open     *)
(* when the publish starts receives exactly one pollUpdate, all with the   *)
(* same payload.                                                           *)
(***************************************************************************)
SamePayload ==
    \A i, j \in 1..Len(sent) : sent[i].frame = sent[j].frame

C8_EveryOpenSubscriberServed ==
    IsPublish =>
        /\ \A c \in Range(lastOp.before) :
              wsState[c] = "OPEN" => Cardinality(UpdatesTo(c)) = 1
        /\ SamePayload

(***************************************************************************)
(* C8 as amended: a subscriber of the poll receives exactly one pollUpdate *)
(* if it has a registry record, its transport is open and its send does    *)
(* not throw, and none otherwise; all that are sent carry the same         *)
(* payload.                                                                *)
(***************************************************************************)
C8_EveryHealthySubscriberServed ==
    IsPublish =>
        /\ \A c \in Range(lastOp.before) :
              Cardinality(UpdatesTo(c)) = IF c \in FailedSubscribers THEN 0 ELSE 1
        /\ \A i \in 1..Len(sent) : sent[i].to \in Range(lastOp.before)
        /\ SamePayload

\* Two healthy subscribers are served after one whose send threw.
C8_Witness ==
    /\ lastOp.op = "publish"
    /\ Len(lastOp.before) = 3
    /\ lastOp.throwers = {lastOp.before[1]}
    /\ Len(sent) = 2
    /\ sent[1].to = lastOp.before[2]
    /\ sent[2].to = lastOp.before[3]
    /\ sent[1].frame = sent[2].frame

(***************************************************************************)
(* C9: broadcastPollUpdate returns normally whatever sends fail, and the   *)
(* vote handler that called it after its commit answers 201.               *)
(***************************************************************************)
C9_PublishNeverThrows ==
    IsPublish =>
        /\ lastOp.returned = "normal"
        /\ lastOp.op = "voteBroadcast" => voteReq[lastOp.conn].status = 201

\* A committed vote is answered 201 although every send of its broadcast
\* failed, one by throwing and one on a socket that is not open.
C9_Witness ==
    /\ lastOp.op = "voteBroadcast"
    /\ Len(lastOp.before) = 2
    /\ lastOp.throwers # {}
    /\ lastOp.failCount = 2
    /\ voteReq[lastOp.conn].status = 201
    /\ votes # {}

(***************************************************************************)
(* C10: a registered connection from which no frame and no pong arrives    *)
(* any more is eventually removed from the registry by the sweep.          *)
(***************************************************************************)
Heard(c) ==
    lastOp.conn = c /\ lastOp.op \in {"message", "invalidJson", "pong"}

C10_SilentConnectionEvicted ==
    \A c \in ConnIds :
        (c \in DOMAIN clients) ~> (c \notin DOMAIN clients \/ Heard(c))


(***************************************************************************)
(* C11: a sweep never evicts a connection whose most recent inbound frame  *)
(* or pong is younger than the inactivity threshold.  A frame or pong      *)
(* handled at the instant of the sweep (a parsed frame or a pong, by the   *)
(* handler that ran last) has age zero.                                    *)
(***************************************************************************)
JustHeard(c) == lastOp.conn = c /\ lastOp.op \in {"message", "pong"}

C11_RecentlyHeardNotEvicted ==
    [][CleanupInactiveConnections =>
          \A c \in DOMAIN clients : JustHeard(c) => c \in DOMAIN clients']_vars

(***************************************************************************)
(* C12: when a sweep finishes, every registered connection has either been *)
(* evicted (its socket closed by the server with a close reason if it was  *)
(* open, and the connection absent from the registry, from the             *)
(* authenticated map and from every subscriber set) or left untouched; a   *)
(* connection past the threshold is evicted and one whose liveness (last   *)
(* inbound frame or pong) is within the threshold is untouched.            *)
(***************************************************************************)
SweepUntouched(c) ==
    /\ c \in DOMAIN clients'
    /\ clients'[c] = clients[c]
    /\ wsState'[c] = wsState[c]
    /\ TopicsOf(pollSubscriptions', c) = TopicsOf(pollSubscriptions, c)
    /\ (c \in DOMAIN authenticatedClients') = (c \in DOMAIN authenticatedClients)

SweepEvicted(c) ==
    /\ c \notin DOMAIN clients'
    /\ c \notin DOMAIN authenticatedClients'
    /\ TopicsOf(pollSubscriptions', c) = {}
    /\ wsState'[c] # "OPEN"
    /\ wsState[c] = "OPEN" =>
          \E call \in lastOp'.closed : call.conn = c /\ call.reason # ""

C12_SweepEvictsTheStaleOnly ==
    [][CleanupInactiveConnections =>
          \A c \in DOMAIN clients :
              /\ SweepUntouched(c) \/ SweepEvicted(c)
              /\ IsInactive(clients[c]) => SweepEvicted(c)
              /\ JustHeard(c) => SweepUntouched(c)]_vars


(***************************************************************************)
(* C13: the close handler and the sweeper can both remove a connection.    *)
(* In either order the second removal changes nothing: the close handler   *)
(* of a connection the sweeper evicted leaves the registry, the            *)
(* authenticated map and every connection's subscriptions as they are, a   *)
(* sweep never finds a connection the close handler removed, and both      *)
(* orders end in the same three maps.                                      *)
(***************************************************************************)
Memberships(ps) == [c \in ConnIds |-> TopicsOf(ps, c)]

C13_BothOrdersAgree ==
    \A c \in ConnIds :
        wsState[c] \in {"OPEN", "CLOSING"} =>
            /\ CloseRemoval(SweepRemoval(Registry), c)
                  = SweepRemoval(CloseRemoval(Registry, c))
            /\ c \notin InactiveIn(CloseRemoval(Registry, c).clients)
            /\ c \in InactiveIn(clients) =>
                  CloseRemoval(SweepRemoval(Registry), c) = SweepRemoval(Registry)

C13_CloseAfterSweepIsNoOp ==
    \A c \in ConnIds :
        (destroyed[c].by = "sweep" /\ OnClose(c)) =>
            /\ clients' = clients
            /\ authenticatedClients' = authenticatedClients
            /\ Memberships(pollSubscriptions') = Memberships(pollSubscriptions)

C13_RemovalIdempotent ==
    []C13_BothOrdersAgree /\ [][C13_CloseAfterSweepIsNoOp]_vars

\* The close event of a connection the sweeper evicted arrives while another
\* connection is registered and subscribed.
C13_Witness ==
    /\ lastOp.op = "close"
    /\ lastOp.removedBy = "sweep"
    /\ lastOp.conn \notin DOMAIN clients
    /\ \E d \in DOMAIN clients : TopicsOf(pollSubscriptions, d) # {}


(***************************************************************************)
(* C14: at every point of any sequence of subscribe, unsubscribe and       *)
(* disconnect operations, a connection is in a poll's subscriber set if    *)
(* and only if the poll is among the connection's own subscriptions.  The  *)
(* code keeps no set per connection: a connection's own subscriptions are  *)
(* the polls it was answered 'subscribed' for and that it has not since    *)
(* been answered 'unsubscribed' for or lost with its record (granted).     *)
(***************************************************************************)
OwnTopics(c) == {p \in Topics : <<c, p>> \in granted}

C14_BidirectionalConsistency ==
    \A c \in ConnIds, p \in Topics :
        (c \in Range(SubscribersOf(pollSubscriptions, p))) <=> (p \in OwnTopics(c))

\* A connection subscribed to two polls has disconnected while another one
\* stays subscribed.
C14_Witness ==
    /\ lastOp.op = "close"
    /\ Cardinality(destroyed[lastOp.conn].topics) = 2
    /\ OwnTopics(lastOp.conn) = {}
    /\ \E d \in DOMAIN clients : OwnTopics(d) # {}


(***************************************************************************)
(* C15: an authenticate frame whose token is missing or rejected by the    *)
(* verifier is answered auth_error, leaves the socket open and the         *)
(* connection registered, and leaves its authenticated flag, its user id,  *)
(* the authenticated map and every subscriber set exactly as they were.    *)
(***************************************************************************)
RejectedTokens == {tok \in TokenInputs : JwtVerify(tok) = None}

C15_FailedAuthStep(c, tok) ==
    OnMessage(c, Frame("authenticate", 0, tok)) =>
        /\ Len(sent') = 1
        /\ sent'[1].to = c
        /\ sent'[1].frame.type = "auth_error"
        /\ wsState' = wsState
        /\ DOMAIN clients' = DOMAIN clients
        /\ c \in DOMAIN clients =>
              /\ clients'[c].authenticated = clients[c].authenticated
              /\ clients'[c].userId = clients[c].userId
        /\ authenticatedClients' = authenticatedClients
        /\ pollSubscriptions' = pollSubscriptions

C15_FailedAuthChangesNothing ==
    [][lastOp'.op = "message" =>
          \A tok \in RejectedTokens : C15_FailedAuthStep(lastOp'.conn, tok)]_vars

\* An authenticated and subscribed connection was answered auth_error for a
\* token the verifier rejected, and is still authenticated and subscribed.
C15_Witness ==
    /\ lastOp.op = "message"
    /\ Len(sent) = 1
    /\ sent[1].frame.type = "auth_error"
    /\ sent[1].frame.message = "Invalid or expired token"
    /\ lastOp.conn \in DOMAIN clients
    /\ clients[lastOp.conn].authenticated
    /\ clients[lastOp.conn].userId # None
    /\ SubscribedTopics(lastOp.conn) # {}

(***************************************************************************)
(* C16: whenever an authenticate frame is answered 'authenticated', the    *)
(* connection has a registry record whose authenticated flag is true and   *)
(* whose user id is the user id of the verified token.                     *)
(***************************************************************************)
C16_AuthenticatedMeansRecorded ==
    (lastOp.op = "message" /\ Len(sent) = 1 /\ sent[1].frame.type = "authenticated") =>
        /\ lastOp.conn \in DOMAIN clients
        /\ clients[lastOp.conn].authenticated
        /\ clients[lastOp.conn].userId = Some(sent[1].frame.data)

(***************************************************************************)
(* C17: once the authenticated flag of a connection's record is true, it   *)
(* is true in every later state in which the record exists, whatever       *)
(* frames the connection sends.                                            *)
(***************************************************************************)
C17_AuthenticationLatch ==
    [][\A c \in DOMAIN clients :
          (clients[c].authenticated /\ c \in DOMAIN clients') =>
              clients'[c].authenticated]_vars

\* An authenticated connection sent an authenticate frame without a token
\* and is still authenticated.
C17_Witness ==
    /\ lastOp.op = "message"
    /\ Len(sent) = 1
    /\ sent[1].frame.message = "Token is required"
    /\ lastOp.conn \in DOMAIN clients
    /\ clients[lastOp.conn].authenticated


(***************************************************************************)
(* C18: a subscribe frame from a connection that is already in the poll's  *)
(* subscriber set is answered 'subscribed' and leaves the subscriber sets  *)
(* as they are, and a publish sends a connection at most one pollUpdate    *)
(* (exactly one to a subscriber whose send does not fail).                 *)
(***************************************************************************)
IsReply(type) ==
    lastOp.op = "message" /\ Len(sent) = 1 /\ sent[1].frame.type = type

C18_SubscribeIdempotent ==
    /\ \A c \in ConnIds, p \in Topics :
          (wsState[c] = "OPEN" /\ IsClientAuthenticated(clients, c)
           /\ c \in Range(SubscribersOf(pollSubscriptions, p))) =>
              /\ SubscribeNow(c, p).reply.type = "subscribed"
              /\ SubscribeNow(c, p).subs = pollSubscriptions
    /\ (IsReply("subscribed") /\ lastOp.conn \in Range(lastOp.before)) =>
          SubscribersOf(pollSubscriptions, lastOp.topic) = lastOp.before
    /\ IsPublish =>
          \A c \in ConnIds :
              /\ Cardinality(UpdatesTo(c)) <= 1
              /\ c \in Range(lastOp.before) \ FailedSubscribers =>
                    Cardinality(UpdatesTo(c)) = 1

\* A connection that was already one of two subscribers of a poll has
\* subscribed to it again.
C18_Witness ==
    /\ IsReply("subscribed")
    /\ lastOp.conn \in Range(lastOp.before)
    /\ Len(lastOp.before) = 2
    /\ pollSubscriptions[lastOp.topic] = lastOp.before


(***************************************************************************)
(* C19: an unsubscribe frame carrying a poll id is answered 'unsubscribed' *)
(* with that poll id; afterwards the connection is not in that poll's      *)
(* subscriber set and the poll has no entry if its set is empty; the       *)
(* entries of the other polls and the other members of the poll's set are  *)
(* as before.                                                              *)
(***************************************************************************)
UnsubscribeNow(c, p) ==
    HandleMessage(clients, pollSubscriptions, authenticatedClients, c,
                  Frame("unsubscribe", p, 0))

C19_UnsubscribeRemovesOne ==
    /\ \A c \in ConnIds, p \in Topics :
          wsState[c] = "OPEN" =>
              LET r == UnsubscribeNow(c, p)
              IN  /\ r.reply = Frame("unsubscribed", p, 0)
                  /\ c \notin Range(SubscribersOf(r.subs, p))
                  /\ p \in DOMAIN r.subs => Len(r.subs[p]) > 0
                  /\ SubscribersOf(r.subs, p)
                        = SetDelete(SubscribersOf(pollSubscriptions, p), c)
                  /\ \A q \in Topics \ {p} :
                        /\ (q \in DOMAIN r.subs) = (q \in DOMAIN pollSubscriptions)
                        /\ SubscribersOf(r.subs, q) = SubscribersOf(pollSubscriptions, q)
    /\ IsReply("unsubscribed") =>
          /\ sent[1].frame.pollId = lastOp.topic
          /\ sent[1].to = lastOp.conn
          /\ SubscribersOf(pollSubscriptions, lastOp.topic)
                = SetDelete(lastOp.before, lastOp.conn)
          /\ lastOp.topic \in DOMAIN pollSubscriptions =>
                Len(pollSubscriptions[lastOp.topic]) > 0

\* The only subscriber of a poll has unsubscribed from it: the poll's entry
\* is gone, and the connection is still subscribed to another poll.
C19_Witness ==
    /\ IsReply("unsubscribed")
    /\ lastOp.before = <<lastOp.conn>>
    /\ lastOp.topic \notin DOMAIN pollSubscriptions
    /\ SubscribedTopics(lastOp.conn) # {}


(***************************************************************************)
(* C20 as claimed: for an authenticated connection, subscribe, unsubscribe *)
(* and subscribe to the same poll are answered 'subscribed',               *)
(* 'unsubscribed', 'subscribed' and end in the subscriptions a single      *)
(* subscribe gives; subscribe followed by unsubscribe gives back the       *)
(* subscriptions before the subscribe.                                     *)
(***************************************************************************)
\* handleMessage applied to the maps a previous call returned.
Then(r, c, frame) == HandleMessage(r.clients, r.subs, r.auth, c, frame)

Now == [clients |-> clients, subs |-> pollSubscriptions, auth |-> authenticatedClients]

SubUnsubSub(c, p) ==
    LET r1 == Then(Now, c, Frame("subscribe", p, 0))
        r2 == Then(r1, c, Frame("unsubscribe", p, 0))
        r3 == Then(r2, c, Frame("subscribe", p, 0))
    IN  /\ r1.reply.type = "subscribed"
        /\ r2.reply.type = "unsubscribed"
        /\ r3.reply.type = "subscribed"
        /\ Memberships(r3.subs) = Memberships(r1.subs)

SubUnsubRestores(c, p) ==
    LET r1 == Then(Now, c, Frame("subscribe", p, 0))
        r2 == Then(r1, c, Frame("unsubscribe", p, 0))
    IN  Memberships(r2.subs) = Memberships(pollSubscriptions)

C20_SubscribeUnsubscribeRoundTrip ==
    \A c \in ConnIds, p \in Topics :
        (wsState[c] = "OPEN" /\ IsClientAuthenticated(clients, c)) =>
            SubUnsubSub(c, p) /\ SubUnsubRestores(c, p)

(***************************************************************************)
(* C20 as amended: the same, where subscribe followed by unsubscribe gives *)
(* back the subscriptions before the subscribe if the connection was not   *)
(* subscribed to the poll before, and otherwise leaves it unsubscribed     *)
(* from that poll with everything else as before.                          *)
(***************************************************************************)
C20_RoundTripFromUnsubscribed ==
    \A c \in ConnIds, p \in Topics :
        (wsState[c] = "OPEN" /\ IsClientAuthenticated(clients, c)) =>
            /\ SubUnsubSub(c, p)
            /\ IF c \in Range(SubscribersOf(pollSubscriptions, p))
               THEN LET r2 == Then(Then(Now, c, Frame("subscribe", p, 0)),
                                   c, Frame("unsubscribe", p, 0))
                    IN  Memberships(r2.subs)
                           = [Memberships(pollSubscriptions) EXCEPT
                                 ![c] = @ \ {p}]
               ELSE SubUnsubRestores(c, p)

\* An authenticated connection has subscribed to a poll that has another
\* subscriber and then unsubscribed from it: the poll's set is what it was
\* before, and it can subscribe again.
C20_Witness ==
    /\ IsReply("unsubscribed")
    /\ lastOp.conn \in Range(lastOp.before)
    /\ Len(lastOp.before) = 2
    /\ lastOp.before[2] = lastOp.conn
    /\ IsClientAuthenticated(clients, lastOp.conn)
    /\ wsState[lastOp.conn] = "OPEN"
    /\ SubscribeNow(lastOp.conn, lastOp.topic).subs[lastOp.topic] = lastOp.before


(***************************************************************************)
(* C21: a ping frame from a connection, authenticated or not, is answered  *)
(* with one pong frame that carries a timestamp, sent to the sender, and   *)
(* changes neither the authentication of any connection nor any            *)
(* subscription.                                                           *)
(***************************************************************************)
C21_PingStep(c) ==
    /\ sent' = <<Out(c, [Frame("pong", 0, 0) EXCEPT !.timestamp = Some(0)])>>
    /\ sent'[1].frame.timestamp # None
    /\ authenticatedClients' = authenticatedClients
    /\ pollSubscriptions' = pollSubscriptions
    /\ DOMAIN clients' = DOMAIN clients
    /\ \A x \in DOMAIN clients :
          /\ clients'[x].authenticated = clients[x].authenticated
          /\ clients'[x].userId = clients[x].userId
    /\ granted' = granted

C21_PingAnsweredWithPong ==
    [][\A c \in ConnIds : OnMessage(c, Frame("ping", 0, 0)) => C21_PingStep(c)]_vars

\* A ping was answered to an authenticated connection that holds a
\* subscription, while another connection is registered unauthenticated.
C21_Witness ==
    /\ IsReply("pong")
    /\ IsClientAuthenticated(clients, lastOp.conn)
    /\ SubscribedTopics(lastOp.conn) # {}
    /\ \E x \in DOMAIN clients : ~clients[x].authenticated


(***************************************************************************)
(* C22: a frame of unknown type, and a subscribe or unsubscribe frame      *)
(* without a poll id, is answered with one error frame sent to the sender  *)
(* alone; the socket stays open, the registry holds the same connections,  *)
(* and no authentication and no subscription of any connection changes.    *)
(* The missing poll id is reported to authenticated and unauthenticated    *)
(* senders alike.                                                          *)
(***************************************************************************)
C22_ProtocolErrors ==
    {Frame("bogus", 0, 0), Frame("subscribe", 0, 0), Frame("unsubscribe", 0, 0)}

C22_Message(frame) ==
    CASE frame.type = "subscribe" -> "Poll ID is required for subscription"
      [] frame.type = "unsubscribe" -> "Poll ID is required for unsubscription"
      [] OTHER -> "Unknown message type"

C22_ErrorStep(c, frame) ==
    /\ sent' = <<Out(c, ErrorFrame("error", C22_Message(frame)))>>
    /\ wsState' = wsState
    /\ wsState'[c] = "OPEN"
    /\ DOMAIN clients' = DOMAIN clients
    /\ authenticatedClients' = authenticatedClients
    /\ pollSubscriptions' = pollSubscriptions
    /\ \A x \in DOMAIN clients :
          /\ clients'[x].authenticated = clients[x].authenticated
          /\ clients'[x].userId = clients[x].userId
    /\ granted' = granted

C22_ProtocolErrorAnswered ==
    [][\A c \in ConnIds, frame \in C22_ProtocolErrors :
          OnMessage(c, frame) => C22_ErrorStep(c, frame)]_vars

\* An authenticated connection that holds a subscription sent a subscribe
\* frame without a poll id.
C22_Witness ==
    /\ IsReply("error")
    /\ sent[1].frame.message = "Poll ID is required for subscription"
    /\ IsClientAuthenticated(clients, lastOp.conn)
    /\ SubscribedTopics(lastOp.conn) # {}


(***************************************************************************)
(* C23: a message that is not the text of a JSON object is answered with   *)
(* one error frame to the sender and leaves the registry records, their    *)
(* liveness fields included, the authentication map and the subscriptions  *)
(* as they were.                                                           *)
(***************************************************************************)
C23_NotObjectStep(c) ==
    /\ Len(sent') = 1
    /\ sent'[1].to = c
    /\ sent'[1].frame.type = "error"
    /\ clients' = clients
    /\ authenticatedClients' = authenticatedClients
    /\ pollSubscriptions' = pollSubscriptions

C23_NotObjectChangesNothing ==
    [][\A c \in ConnIds, message \in NotObjects :
          OnNotObject(c, message) => C23_NotObjectStep(c)]_vars


(***************************************************************************)
(* C24 as claimed: a getStats frame is answered with one frame to the      *)
(* sender, of type 'stats' exactly when the sender's record is             *)
(* authenticated; otherwise the frame is an error, the socket stays open   *)
(* and no map of the server changes.                                       *)
(***************************************************************************)
C24_Answer(c) ==
    /\ sent' = <<Out(c, sent'[1].frame)>>
    /\ (sent'[1].frame.type = "stats")
          <=> (c \in DOMAIN clients /\ clients[c].authenticated)
    /\ sent'[1].frame.type \in {"stats", "error"}
    /\ wsState' = wsState
    /\ authenticatedClients' = authenticatedClients
    /\ pollSubscriptions' = pollSubscriptions
    /\ granted' = granted

C24_StatsOnlyIfAuthenticated ==
    [][\A c \in ConnIds :
          OnMessage(c, Frame("getStats", 0, 0)) =>
              /\ C24_Answer(c)
              /\ sent'[1].frame.type = "error" => clients' = clients]_vars

(***************************************************************************)
(* C24 as amended: the same, where the refused getStats changes nothing    *)
(* but the lastActivity of the sender's record, which is set to the time   *)
(* of the frame.                                                           *)
(***************************************************************************)
C24_OnlyActivityTouched(c) ==
    /\ DOMAIN clients' = DOMAIN clients
    /\ \A x \in DOMAIN clients :
          IF x = c
          THEN clients'[x] = [clients[x] EXCEPT !.lastActivity = Some(0)]
          ELSE clients'[x] = clients[x]

C24_StatsOnlyIfAuthenticatedActivityTouched ==
    [][\A c \in ConnIds :
          OnMessage(c, Frame("getStats", 0, 0)) =>
              /\ C24_Answer(c)
              /\ C24_OnlyActivityTouched(c)]_vars

\* An unauthenticated connection was refused the statistics while another
\* connection is authenticated; its lastActivity is the time of the frame.
C24_Witness ==
    /\ IsReply("error")
    /\ sent[1].frame.message = "Authentication required"
    /\ lastOp.conn \in DOMAIN clients
    /\ clients[lastOp.conn].lastActivity = Some(0)
    /\ wsState[lastOp.conn] = "OPEN"
    /\ \E x \in DOMAIN clients : clients[x].authenticated


(***************************************************************************)
(* C25: whatever connection a does (a frame of any kind, its socket going  *)
(* down, its close event, its send failing inside a broadcast), the        *)
(* registry record, the authentication and the poll memberships of every   *)
(* other connection b are what they are without it, and every publish      *)
(* sends b the same pollUpdate frames as without it.                       *)
(***************************************************************************)
\* What the three maps hold about connection b.
AsSeenBy(reg, b) ==
    [record |-> IF b \in DOMAIN reg.clients THEN Some(reg.clients[b]) ELSE None,
     auth |-> IF b \in DOMAIN reg.auth THEN Some(reg.auth[b]) ELSE None,
     topics |-> TopicsOf(reg.subs, b)]

FramesTo(out, b) == SelectSeq(out, LAMBDA o : o.to = b)

\* A step taken by connection a alone: a frame of its own, parsed or not,
\* its socket going down, its close event.
DeedOf(a) ==
    /\ lastOp'.conn = a
    /\ lastOp'.op \in {"message", "invalidJson", "transportDown", "close"}

\* b's own part in a broadcast to pollId: it is in the poll's set, and
\* whether its record and socket let the send happen and the send throws.
Subscribed(b, pollId) == b \in Range(SubscribersOf(pollSubscriptions, pollId))
Reached(b, pollId) ==
    Subscribed(b, pollId) /\ b \in DOMAIN clients /\ wsState[b] = "OPEN"

\* What a publish does to b is decided by b's own part and by whether the
\* send to b throws, whatever the other subscribers' sends do.
PublishSeenBy(b, pollId, pollData, throwers) ==
    /\ FramesTo(sent', b) =
          IF Reached(b, pollId) /\ b \notin throwers
          THEN <<Out(b, [Frame("pollUpdate", pollId, pollData) EXCEPT
                            !.timestamp = Some(0)])>>
          ELSE <<>>
    /\ AsSeenBy(Registry, b)' =
          IF Reached(b, pollId) /\ b \notin throwers
          THEN AsSeenBy(Registry, b)
          ELSE IF Reached(b, pollId)
          THEN [AsSeenBy(Registry, b) EXCEPT !.record = None, !.topics = @ \ {pollId}]
          ELSE [AsSeenBy(Registry, b) EXCEPT !.topics = @ \ {pollId}]
    /\ wsState'[b] = wsState[b]

C25_NoInterference ==
    [][/\ \A a, b \in ConnIds :
             (a # b /\ DeedOf(a)) =>
                 /\ AsSeenBy(Registry, b)' = AsSeenBy(Registry, b)
                 /\ wsState'[b] = wsState[b]
                 /\ FramesTo(sent', b) = <<>>
       /\ lastOp'.op = "publish" =>
             \E pollData \in Payloads : \A b \in ConnIds :
                 PublishSeenBy(b, lastOp'.topic, pollData, lastOp'.throwers) ]_vars

\* A publish in which the send to the first subscriber threw and the second
\* subscriber was sent the pollUpdate.
C25_Witness ==
    /\ lastOp.op = "publish"
    /\ Len(lastOp.before) = 2
    /\ lastOp.throwers = {lastOp.before[1]}
    /\ FramesTo(sent, lastOp.before[2])
          = <<Out(lastOp.before[2], Stamped(Frame("pollUpdate", lastOp.topic, 1)))>>
    /\ lastOp.before[1] \notin DOMAIN clients


C27_Accepted ==
    lastOp'.op = "connect" =>
        LET c == lastOp'.conn
        IN  /\ c \notin DOMAIN clients
            /\ wsState[c] = "NONE"
            /\ FramesTo(wire.frames, c) = <<>>
            /\ c \in DOMAIN clients'
            /\ clients'[c].authenticated = FALSE
            /\ clients'[c].userId = None
            /\ c \notin DOMAIN authenticatedClients'
            /\ TopicsOf(pollSubscriptions', c) = {}
            /\ sent' = <<Out(c, Frame("connected", 0, c))>>

C27_ConnectedFirst ==
    \A c \in ConnIds :
        LET frames == FramesTo(wire.frames, c)
        IN  /\ wsState[c] # "NONE" => Len(frames) >= 1
            /\ \A i \in 1..Len(frames) :
                  (frames[i].frame.type = "connected") <=> (i = 1)
            /\ Len(frames) >= 1 => frames[1].frame = Frame("connected", 0, c)

C27_AcceptThenWelcome == []C27_ConnectedFirst /\ [][C27_Accepted]_vars

\* The second connection was accepted while the first held a subscription,
\* and has since been answered a ping of its own.
C27_Witness ==
    /\ Len(FramesTo(wire.frames, 2)) >= 2
    /\ FramesTo(wire.frames, 2)[1].frame = Frame("connected", 0, 2)
    /\ FramesTo(wire.frames, 2)[2].frame.type = "pong"
    /\ SubscribedTopics(1) # {}
    /\ ~clients[2].authenticated


(***************************************************************************)
(* C28: broadcastPollUpdate is called only by a vote request whose vote    *)
(* row is committed, for the poll of the voted option; a request answered  *)
(* 400, 401, 404, 409 or 500 has made no call, a request answered 201 has  *)
(* made exactly one, and every committed row has had its call or is about  *)
(* to.                                                                     *)
(***************************************************************************)
C28_Step ==
    IF lastOp'.op = "voteBroadcast"
    THEN LET r == lastOp'.conn
         IN  /\ <<voteReq[r].user, voteReq[r].option>> \in votes
             /\ lastOp'.topic = PollOf(voteReq[r].option)
             /\ voteReq'[r].status = 201
             /\ voteReq'[r].broadcasts = voteReq[r].broadcasts + 1
             /\ \A i \in 1..Len(sent') :
                   /\ sent'[i].frame.type = "pollUpdate"
                   /\ sent'[i].frame.pollId = PollOf(voteReq[r].option)
    ELSE /\ \A i \in 1..Len(sent') : sent'[i].frame.type # "pollUpdate"
         /\ \A r \in Requests : voteReq'[r].broadcasts = voteReq[r].broadcasts

C28_Counts ==
    /\ \A r \in Requests :
          voteReq[r].broadcasts =
             IF voteReq[r].pc = "done" /\ voteReq[r].status = 201 THEN 1 ELSE 0
    /\ Cardinality(votes) =
          Cardinality({r \in Requests : voteReq[r].broadcasts = 1})
          + Cardinality({r \in Requests : voteReq[r].pc \in {"reload", "broadcast"}})

C28_BroadcastOnlyAfterCommit == []C28_Counts /\ [][C28_Step]_vars

\* A vote was committed and its broadcast reached the subscriber, and the
\* other request was refused as a duplicate while the first was in flight.
C28_Witness ==
    /\ lastOp.op = "voteBroadcast"
    /\ Len(sent) = 1
    /\ voteReq[lastOp.conn].status = 201
    /\ \E r \in Requests : voteReq[r].status = 409 /\ voteReq[r].broadcasts = 0
    /\ Cardinality(votes) = 1


(***************************************************************************)
(* C29: whatever vote requests have run, also with their handlers          *)
(* interleaved at the awaits, the vote table holds at most one row of a    *)
(* user for the options of one poll.                                       *)
(***************************************************************************)
C29_OneVotePerUserPerPoll ==
    \A user \in Users, pollId \in Topics :
        Cardinality(VotesInPoll(user, pollId)) <= 1


(***************************************************************************)
(* C30: a poll row, or its published flag, changes or goes away only in    *)
(* the write of a PUT or DELETE request whose requester is the creator of  *)
(* that poll, and no other poll changes with it; the lookup of a request   *)
(* of another user answers 403, the lookup of an id of no poll answers     *)
(* 404, and neither changes a poll.                                        *)
(***************************************************************************)
C30_SamePoll(p) ==
    /\ p \in DOMAIN polls <=> p \in DOMAIN polls'
    /\ p \in DOMAIN polls => polls'[p] = polls[p]
    /\ p \in isPublished <=> p \in isPublished'

C30_Write ==
    (polls' # polls \/ isPublished' # isPublished) =>
        /\ lastOp'.op = "pollWrite"
        /\ lastOp'.topic \in DOMAIN polls
        /\ polls[lastOp'.topic].creatorId = lastOp'.conn
        /\ \A p \in Topics \ {lastOp'.topic} : C30_SamePoll(p)

C30_Lookup ==
    lastOp'.op = "pollFind" =>
        LET r == lastOp'.conn
            id == pollReq[r].id
        IN  /\ id \notin DOMAIN polls => pollReq'[r] = PollRespond(r, 404)[r]
            /\ (id \in DOMAIN polls /\ polls[id].creatorId # pollReq[r].user) =>
                  pollReq'[r] = PollRespond(r, 403)[r]
            /\ \A p \in Topics : C30_SamePoll(p)

C30_Answered ==
    \A r \in Requests :
        pollReq[r].status \in {403, 404} => pollReq[r].pc = "done"

C30_CreatorOnly == []C30_Answered /\ [][C30_Write /\ C30_Lookup]_vars

\* The creator's PUT has changed the question of a poll after the PUT or
\* DELETE of another user was answered 403.
C30_Witness ==
    /\ lastOp.op = "pollWrite"
    /\ lastOp.returned = "PUT"
    /\ lastOp.topic \in DOMAIN polls
    /\ polls[lastOp.topic].question = 1
    /\ polls[lastOp.topic].creatorId = lastOp.conn
    /\ \E r \in Requests : pollReq[r].status = 403


(***************************************************************************)
(* C31: every registered connection that a poll's subscriber set holds has *)
(* authenticated = true; every 'subscribed' answer went to a registered,   *)
(* authenticated connection; and a subscribe frame from a connection whose *)
(* record the sweep or a failed broadcast removed is answered with an      *)
(* error and adds no subscription.                                         *)
(***************************************************************************)
C31_SubscriptionsFromAuthenticated ==
    /\ \A p \in DOMAIN pollSubscriptions :
          \A c \in Range(pollSubscriptions[p]) :
              c \in DOMAIN clients => clients[c].authenticated = TRUE
    /\ IsReply("subscribed") =>
          /\ lastOp.conn \in DOMAIN clients
          /\ clients[lastOp.conn].authenticated = TRUE
    /\ \A c \in ConnIds, p \in Topics :
          (c \notin DOMAIN clients /\ destroyed[c].by \in {"sweep", "broadcast"}) =>
              /\ SubscribeNow(c, p).reply.type = "error"
              /\ SubscribeNow(c, p).subs = pollSubscriptions

\* A connection whose record a failed broadcast removed, its socket still
\* open and its id still in authenticatedClients, sent a subscribe frame
\* and was refused.
C31_Witness ==
    /\ IsReply("error")
    /\ sent[1].frame.message = "Authentication required for poll subscriptions"
    /\ lastOp.conn \notin DOMAIN clients
    /\ destroyed[lastOp.conn].by = "broadcast"
    /\ lastOp.conn \in DOMAIN authenticatedClients
    /\ wsState[lastOp.conn] = "OPEN"


(***************************************************************************)
(* C32: every frame that handleMessage takes, also one it then refuses     *)
(* (unknown type, missing poll id, not authenticated, token missing or     *)
(* rejected), sets the lastActivity of the sender's record to the time of  *)
(* the frame, and a sweep keeps every connection whose lastActivity is     *)
(* within the inactivity threshold, so a connection that just sent a frame *)
(* survives the sweep.                                                     *)
(***************************************************************************)
C32_Handled == InFrames \cup {Destructure("number")}

C32_FrameTouches ==
    \A c \in DOMAIN clients, frame \in C32_Handled :
        OnMessage(c, frame) =>
            /\ c \in DOMAIN clients'
            /\ clients'[c].lastActivity = Some(0)

C32_SweepKeepsActive ==
    CleanupInactiveConnections =>
        \A c \in DOMAIN clients :
            /\ (/\ clients[c].lastActivity # None
                /\ clients[c].lastActivity[1] * TickMs <= InactivityThresholdMs)
                  => c \in DOMAIN clients'
            /\ (lastOp.op = "message" /\ lastOp.conn = c) => c \in DOMAIN clients'

C32_FramesRefreshLiveness == [][C32_FrameTouches /\ C32_SweepKeepsActive]_vars

\* A sweep has evicted a connection and kept the other one, whose pings
\* are as old but whose refused frame arrived just before the sweep.
C32_Witness ==
    /\ lastOp.op = "sweep"
    /\ \E c \in ConnIds : destroyed[c].by = "sweep"
    /\ \E c \in DOMAIN clients :
          /\ clients[c].lastActivity = Some(0)
          /\ ~clients[c].authenticated


(***************************************************************************)
(* C33 as claimed: a broadcast calls ws.send once for each member of the   *)
(* poll's subscriber set as it was when the broadcast started, and for no  *)
(* one else; the removals made on the way make the iteration neither pass  *)
(* over a subscriber nor come to one twice.                                *)
(***************************************************************************)
C33_SendAttemptedToEverySubscriber ==
    IsPublish =>
        /\ lastOp.visited = lastOp.before
        /\ lastOp.attempted = lastOp.before

(***************************************************************************)
(* C33 as amended: a broadcast comes to each member of the poll's          *)
(* subscriber set as it was when the broadcast started exactly once, in    *)
(* the set's order, and to no one else; it calls ws.send for exactly those *)
(* of them that have a registry record and an open socket, and removes the *)
(* others from the set without a send.                                     *)
(***************************************************************************)
\* The subscriber had a record and an open socket when the broadcast came
\* to it (a record the broadcast removed belonged to a thrower).
C33_Sendable(c) ==
    (c \in DOMAIN clients \/ c \in lastOp.throwers) /\ wsState[c] = "OPEN"

C33_EverySubscriberVisitedOnce ==
    IsPublish =>
        /\ lastOp.visited = lastOp.before
        /\ lastOp.attempted = SelectSeq(lastOp.before, C33_Sendable)
        /\ \A c \in Range(lastOp.before) \ Range(lastOp.attempted) :
              /\ UpdatesTo(c) = {}
              /\ c \notin Range(SubscribersOf(pollSubscriptions, lastOp.topic))

\* Of two subscribers the first one's send threw and the second one's
\* socket was not open: the broadcast came to both and called one send.
C33_Witness ==
    /\ lastOp.op = "publish"
    /\ Len(lastOp.before) = 2
    /\ lastOp.throwers = {lastOp.before[1]}
    /\ wsState[lastOp.before[2]] # "OPEN"
    /\ lastOp.visited = lastOp.before
    /\ lastOp.attempted = <<lastOp.before[1]>>


(***************************************************************************)
(* C34: a broadcast for a poll that has no entry in pollSubscriptions      *)
(* sends no frame and leaves clients and pollSubscriptions as they were.   *)
(***************************************************************************)
C34_NoEntryStep ==
    /\ lastOp'.op \in {"publish", "voteBroadcast"}
    /\ lastOp'.topic \notin DOMAIN pollSubscriptions

C34_NoEntryNoEffect ==
    [][C34_NoEntryStep =>
          /\ sent' = <<>>
          /\ clients' = clients
          /\ pollSubscriptions' = pollSubscriptions
          /\ lastOp'.visited = <<>>]_vars

\* A broadcast for a poll without an entry while another poll has a
\* subscriber with an open socket.
C34_Witness ==
    /\ lastOp.op = "publish"
    /\ lastOp.topic \notin DOMAIN pollSubscriptions
    /\ sent = <<>>
    /\ \E p \in DOMAIN pollSubscriptions : Sendable(p) # {}


(***************************************************************************)
(* C35: after every broadcast, successCount + failCount is the number of   *)
(* subscribers the poll had when the broadcast started, successCount is    *)
(* the number of pollUpdate frames sent, and failCount is the number of    *)
(* subscribers the broadcast removed from the poll's set.                  *)
(***************************************************************************)
C35_RemovedByBroadcast ==
    Range(lastOp.before) \ Range(SubscribersOf(pollSubscriptions, lastOp.topic))

C35_UpdatesSent ==
    {i \in 1..Len(sent) : sent[i].frame.type = "pollUpdate"}

C35_CountsAddUp ==
    IsPublish =>
        /\ lastOp.successCount + lastOp.failCount = Len(lastOp.before)
        /\ lastOp.successCount = Cardinality(C35_UpdatesSent)
        /\ lastOp.failCount = Cardinality(C35_RemovedByBroadcast)
        /\ Range(SubscribersOf(pollSubscriptions, lastOp.topic)) \subseteq Range(lastOp.before)

\* A broadcast to two subscribers of which one was served and one removed.
C35_Witness ==
    /\ lastOp.op = "publish"
    /\ Len(lastOp.before) = 2
    /\ lastOp.successCount = 1
    /\ lastOp.failCount = 1
    /\ Len(sent) = 1


(***************************************************************************)
(* C36: in every reachable state authenticatedClients has an entry for a   *)
(* client id exactly when clients holds a record of it with authenticated  *)
(* true, and the entry is the record's userId.                             *)
(***************************************************************************)
C36_AuthenticatedMapMatchesRegistry ==
    \A c \in ConnIds :
        /\ c \in DOMAIN authenticatedClients <=>
               (c \in DOMAIN clients /\ clients[c].authenticated = TRUE)
        /\ c \in DOMAIN authenticatedClients /\ c \in DOMAIN clients =>
               clients[c].userId = Some(authenticatedClients[c])


(***************************************************************************)
(* C37: every frame that parses is answered with exactly one frame, which  *)
(* goes to the connection that sent it; no handler of an inbound message   *)
(* sends to another connection (only a broadcast does).                    *)
(***************************************************************************)
C37_OneReplyToSender ==
    /\ lastOp.op = "message" =>
          /\ Len(sent) = 1
          /\ sent[1].to = lastOp.conn
          /\ sent[1].frame.type # "pollUpdate"
    /\ ~IsPublish => \A i \in 1..Len(sent) : sent[i].to = lastOp.conn

\* A subscribe answered to its sender while the poll already has another
\* subscriber with a record and an open socket.
C37_Witness ==
    /\ lastOp.op = "message"
    /\ IsReply("subscribed")
    /\ \E b \in Sendable(lastOp.topic) : b # lastOp.conn
    /\ Len(sent) = 1
    /\ sent[1].to = lastOp.conn


(***************************************************************************)
(* C38: in every reachable state the record of a registered connection     *)
(* has a userId exactly when its authenticated flag is true; and an        *)
(* authenticate that succeeds on a connection already authenticated as     *)
(* another user puts the new token's user in the record and leaves the     *)
(* connection's subscriptions as they were.                                *)
(***************************************************************************)
C38_SubjectIffAuthenticated ==
    \A c \in DOMAIN clients :
        clients[c].userId # None <=> clients[c].authenticated = TRUE

\* Connection c, authenticated as one user, is answered 'authenticated' for
\* another.
C38_Reauthenticated(c) ==
    /\ lastOp'.op = "message"
    /\ lastOp'.conn = c
    /\ sent'[1].frame.type = "authenticated"
    /\ c \in DOMAIN clients
    /\ clients[c].authenticated = TRUE
    /\ clients[c].userId # Some(sent'[1].frame.data)

C38_ReauthenticateReplaces ==
    \A c \in ConnIds :
        C38_Reauthenticated(c) =>
            /\ c \in DOMAIN clients'
            /\ clients'[c].authenticated = TRUE
            /\ clients'[c].userId = Some(sent'[1].frame.data)
            /\ authenticatedClients'[c] = sent'[1].frame.data
            /\ pollSubscriptions' = pollSubscriptions

C38_SubjectFollowsAuthentication ==
    []C38_SubjectIffAuthenticated /\ [][C38_ReauthenticateReplaces]_vars

\* A subscribed connection whose record names user 2 after the subscription
\* was granted to it as user 1.
C38_Witness ==
    /\ IsReply("authenticated")
    /\ sent[1].frame.data = 2
    /\ lastOp.conn \in DOMAIN clients
    /\ clients[lastOp.conn].userId = Some(2)
    /\ \E p \in DOMAIN pollSubscriptions : lastOp.conn \in Range(pollSubscriptions[p])
    /\ \E c \in DOMAIN clients : clients[c].userId = None


(***************************************************************************)
(* getConnectionStats: the counts of the stats payload that are read off   *)
(* the maps (activeClients, averageConnectionTime and timestamp are read   *)
(* off the clock).                                                         *)
(***************************************************************************)
RECURSIVE SumOfSizes(_, _)
\* reduce((sum, subscribers) => sum + subscribers.size, 0)
SumOfSizes(ps, pollIds) ==
    IF pollIds = {} THEN 0
    ELSE LET p == CHOOSE x \in pollIds : TRUE
         IN  Len(ps[p]) + SumOfSizes(ps, pollIds \ {p})

GetConnectionStats(cl, ps) ==
    [totalClients |-> Cardinality(DOMAIN cl),
     authenticatedClients |-> Cardinality({c \in DOMAIN cl : cl[c].authenticated}),
     totalSubscriptions |-> SumOfSizes(ps, DOMAIN ps),
     activePolls |-> Cardinality(DOMAIN ps)]

(***************************************************************************)
(* C39: in every reachable state the stats payload agrees with the maps:   *)
(* totalClients is the number of registered connections,                   *)
(* authenticatedClients the number of those whose flag is true (at most    *)
(* totalClients), totalSubscriptions the number of (connection, poll)      *)
(* pairs in the subscription index, and activePolls the number of polls    *)
(* that have at least one subscriber.                                      *)
(***************************************************************************)
C39_Pairs ==
    {pair \in ConnIds \X Topics :
        pair[1] \in Range(SubscribersOf(pollSubscriptions, pair[2]))}

C39_PollsWithSubscribers ==
    {p \in Topics : SubscribersOf(pollSubscriptions, p) # <<>>}

C39_StatsMatchRegistries ==
    LET stats == GetConnectionStats(clients, pollSubscriptions)
    IN  /\ stats.totalClients = Cardinality(DOMAIN clients)
        /\ stats.authenticatedClients =
               Cardinality({c \in DOMAIN clients : clients[c].authenticated = TRUE})
        /\ stats.authenticatedClients <= stats.totalClients
        /\ stats.totalSubscriptions = Cardinality(C39_Pairs)
        /\ stats.activePolls = Cardinality(C39_PollsWithSubscribers)


TypeOK ==
    /\ nextId \in 1..(Cardinality(ConnIds) + 1)
    /\ DOMAIN clients \subseteq ConnIds
    /\ DOMAIN pollSubscriptions \subseteq Topics
    /\ DOMAIN authenticatedClients \subseteq ConnIds

====
